---- MODULE Spec2Model ----
(***************************************************************************)
(* Model of the orders microservice's resilience core:                     *)
(*   - CircuitBreaker (infra/circuit_breaker/circuit_breaker.py)           *)
(*   - CircuitBreakerProductGateway / CircuitBreakerUserGateway            *)
(*   - HttpProductGateway.get_product / get_products                       *)
(*   - RequestPaymentUseCase, CreateOrderUseCase                           *)
(*   - OrderController, ListOrdersUseCase, UpdateOrderStatusUseCase        *)
(*   - the payment-response worker (workers/run_payment_response_worker)   *)
(*                                                                         *)
(* Specifications:                                                         *)
(*   Spec      one CircuitBreaker, called by concurrent asyncio tasks      *)
(*   SpecGw    gateway instances built per request over the class-level    *)
(*             breakers, and calls made through them                       *)
(*   SpecHttp  HttpProductGateway's selection over a catalog response      *)
(*   SpecPay   RequestPaymentUseCase over the order store and the broker   *)
(*   SpecWorker  the payment-response consumer's callback; SpecWorkerFair  *)
(*             adds that deliveries and PUTs end                           *)
(*   SpecCreate  CreateOrderUseCase over the two gateways and the store    *)
(*   SpecRead  OrderController's get, list, update-status and delete over  *)
(*             stored orders and the product gateway                       *)
(*   SpecBroker  RabbitMQBroker.publish over its connection and channel     *)
(*   SpecList  list_orders over orders with products, the catalog down     *)
(*   SpecLife  one order under the status update, the payment request and  *)
(*             the payment-response consumer, run as separate processes    *)
(***************************************************************************)
EXTENDS Integers, Sequences, FiniteSets, TLC

VARIABLES
    heap,       \* the CircuitBreaker objects constructed so far (index = identity)
    now,        \* time.time(), in ticks
    calls,      \* per task: the execute()/gateway call it is making
    class_cb,   \* per gateway class: the class attribute _circuit_breaker (0 = None)
    gws,        \* the gateway instances constructed so far
    failed,     \* history (Spec): failed executions since construction or the last reset()
    ok_closed,  \* history (Spec): since then, a success came in CLOSED after a counted failure
    ho_fail,    \* history (Spec): [time, successes] of the last failure in HALF_OPEN
    http,       \* the HttpProductGateway call under test: [op, ids, response, result]
    orders,     \* the order store: the persisted orders
    published,  \* the messages the broker accepted, in publish order
    rp,         \* the RequestPaymentUseCase.execute call in progress
    worker,     \* the payment-response consumer: the delivery in its callback
    co,         \* the CreateOrderUseCase.execute call in progress
    uc,         \* the OrderController call in progress: get, list, update, delete
    broker      \* the RabbitMQBroker object: its connection, channel and publish call

vars == <<heap, now, calls, class_cb, gws, failed, ok_closed, ho_fail, http,
          orders, published, rp, worker, co, uc, broker>>

\* the state of the order use cases and of the consumer
app == <<orders, published, rp, worker, co, uc, broker>>

----------------------------------------------------------------------------
(* Bounds of the model *)

MaxThreshold == 2
MaxHalfOpenCalls == 2
MaxTimeout == 1
MaxTime == 4
NumTasks == 2
NumGwTasks == 1
MaxGwTime == 2
MaxGateways == 2
EnvThreshold == 2
EnvTimeout == 1
EnvHalfOpenCalls == 1
NumProducts == 3
MaxIds == 3
MaxCatalog == 2
MaxPayRequests == 2
MaxMessages == 2
MaxOrders == 3
MaxCreateTime == 2
MaxResponses == 2

Tasks == 1..NumTasks
GwTasks == 1..NumGwTasks
Thresholds == 1..MaxThreshold
HalfOpenQuotas == 1..MaxHalfOpenCalls
Timeouts == 1..MaxTimeout

----------------------------------------------------------------------------
(* CircuitBreaker *)

CLOSED == "CLOSED"
OPEN == "OPEN"
HALF_OPEN == "HALF_OPEN"
CircuitState == {CLOSED, OPEN, HALF_OPEN}

\* CircuitBreaker.__init__
CircuitBreaker(failure_threshold, recovery_timeout, half_open_calls) ==
    [failure_threshold |-> failure_threshold,
     recovery_timeout |-> recovery_timeout,
     half_open_calls |-> half_open_calls,
     state |-> CLOSED,
     failure_count |-> 0,
     last_failure_time |-> 0,
     half_open_successes |-> 0]

\* time_since_failure = time.time() - self.last_failure_time
time_since_failure(cb, t) == t - cb.last_failure_time

\* variant: the trial is let through once the timeout is reached (>=)
RecoveryTimeoutReached_inclusive(cb, t) ==
    time_since_failure(cb, t) >= cb.recovery_timeout

\* if time_since_failure > self.recovery_timeout
RecoveryTimeoutReached(cb, t) == time_since_failure(cb, t) > cb.recovery_timeout

\* variant: execute calls func whatever the state
RaisesCircuitOpen_never(cb, t) == FALSE

\* execute raises CircuitOpenError before calling func
RaisesCircuitOpen(cb, t) == cb.state = OPEN /\ ~RecoveryTimeoutReached(cb, t)

\* variant: the OPEN -> HALF_OPEN transition keeps the old success counter
BeforeCall_keeps_successes(cb, t) ==
    IF cb.state = OPEN /\ RecoveryTimeoutReached(cb, t)
    THEN [cb EXCEPT !.state = HALF_OPEN]
    ELSE cb

\* the breaker as execute leaves it just before "await func(...)"
BeforeCall(cb, t) ==
    IF cb.state = OPEN /\ RecoveryTimeoutReached(cb, t)
    THEN [cb EXCEPT !.state = HALF_OPEN, !.half_open_successes = 0]
    ELSE cb

\* variant: reset leaves failure_count as it was
reset_keeps_failure_count(cb) ==
    [cb EXCEPT !.state = CLOSED, !.half_open_successes = 0]

\* CircuitBreaker.reset
reset(cb) ==
    [cb EXCEPT !.state = CLOSED, !.failure_count = 0, !.half_open_successes = 0]

\* variant: a success in CLOSED clears failure_count (consecutive failures only)
AfterSuccess_clears_count(cb) ==
    IF cb.state = HALF_OPEN
    THEN LET inc == [cb EXCEPT !.half_open_successes = @ + 1]
         IN  IF inc.half_open_successes >= inc.half_open_calls THEN reset(inc) ELSE inc
    ELSE IF cb.state = CLOSED THEN [cb EXCEPT !.failure_count = 0]
    ELSE cb

\* variant: the breaker is reset only above the quota (>)
AfterSuccess_above_quota(cb) ==
    IF cb.state = HALF_OPEN
    THEN LET inc == [cb EXCEPT !.half_open_successes = @ + 1]
         IN  IF inc.half_open_successes > inc.half_open_calls THEN reset(inc) ELSE inc
    ELSE cb

\* execute, after func returned
AfterSuccess(cb) ==
    IF cb.state = HALF_OPEN
    THEN LET inc == [cb EXCEPT !.half_open_successes = @ + 1]
         IN  IF inc.half_open_successes >= inc.half_open_calls THEN reset(inc) ELSE inc
    ELSE cb

\* variant: the breaker opens only above the threshold (>)
handle_failure_above_threshold(cb, t) ==
    LET stamped == [cb EXCEPT !.last_failure_time = t]
    IN  IF stamped.state = HALF_OPEN
        THEN [stamped EXCEPT !.state = OPEN]
        ELSE IF stamped.state = CLOSED
        THEN LET inc == [stamped EXCEPT !.failure_count = @ + 1]
             IN  IF inc.failure_count > inc.failure_threshold
                 THEN [inc EXCEPT !.state = OPEN]
                 ELSE inc
        ELSE stamped

\* variant: the failure time is recorded only when the failure is counted
handle_failure_unstamped_half_open(cb, t) ==
    IF cb.state = HALF_OPEN
    THEN [cb EXCEPT !.state = OPEN]
    ELSE IF cb.state = CLOSED
    THEN LET inc == [cb EXCEPT !.failure_count = @ + 1, !.last_failure_time = t]
         IN  IF inc.failure_count >= inc.failure_threshold
             THEN [inc EXCEPT !.state = OPEN]
             ELSE inc
    ELSE [cb EXCEPT !.last_failure_time = t]

\* variant: a failure met while OPEN is counted like one met while CLOSED
handle_failure_counts_when_open(cb, t) ==
    LET stamped == [cb EXCEPT !.last_failure_time = t]
    IN  IF stamped.state = HALF_OPEN
        THEN [stamped EXCEPT !.state = OPEN]
        ELSE LET inc == [stamped EXCEPT !.failure_count = @ + 1]
             IN  IF inc.failure_count >= inc.failure_threshold
                 THEN [inc EXCEPT !.state = OPEN]
                 ELSE inc

\* CircuitBreaker._handle_failure
handle_failure(cb, t) ==
    LET stamped == [cb EXCEPT !.last_failure_time = t]
    IN  IF stamped.state = HALF_OPEN
        THEN [stamped EXCEPT !.state = OPEN]
        ELSE IF stamped.state = CLOSED
        THEN LET inc == [stamped EXCEPT !.failure_count = @ + 1]
             IN  IF inc.failure_count >= inc.failure_threshold
                 THEN [inc EXCEPT !.state = OPEN]
                 ELSE inc
        ELSE stamped

----------------------------------------------------------------------------
(* What a call gives its caller: a value or an exception.                  *)
(* val holds the value as a sequence: a product list as it is, one product *)
(* or user as a one-element sequence, None as the empty sequence.          *)

NoResult == [kind |-> "none", val |-> <<>>, err |-> "", id |-> 0]
Returns(v) == [kind |-> "returns", val |-> v, err |-> "", id |-> 0]
RaisesErr(e, i) == [kind |-> "raises", val |-> <<>>, err |-> e, id |-> i]

----------------------------------------------------------------------------
(* HttpProductGateway, HttpUserGateway: the answer to one GET, and what    *)
(* the gateway makes of it. kind: "ok" (2xx with a JSON body), "not_found" *)
(* (404), "status" (another non-2xx), "connect", "timeout"                 *)

OkResponse(body) == [kind |-> "ok", body |-> body]
ErrorResponse(k) == [kind |-> k, body |-> <<>>]

ProductNotFound == "Failed to communicate with products service: Product with ID not found"
ProductHttpStatus == "Error fetching products"
ProductConnect == "Cannot connect to products service"
ProductTimeout == "Request to products service timed out"
ProductOther == "Failed to communicate with products service"
UserHttpStatus == "Error fetching user with CPF"
UserConnect == "Cannot connect to users service"
UserTimeout == "Request to users service timed out"
UserOther == "Failed to communicate with users service"

\* "for product in all_products: if product["id"] == product_id": the index of
\* the first match from j on, 0 when there is none
RECURSIVE FirstMatch(_, _, _)
FirstMatch(all_products, product_id, j) ==
    IF j > Len(all_products) THEN 0
    ELSE IF all_products[j].id = product_id THEN j
    ELSE FirstMatch(all_products, product_id, j + 1)

\* variant: an id that is not in the catalog is skipped
RECURSIVE select_products_skipping(_, _, _, _)
select_products_skipping(product_ids, all_products, k, products) ==
    IF k > Len(product_ids) THEN Returns(products)
    ELSE LET j == FirstMatch(all_products, product_ids[k], 1)
         IN  IF j = 0
             THEN select_products_skipping(product_ids, all_products, k + 1, products)
             ELSE select_products_skipping(product_ids, all_products, k + 1,
                                           Append(products, all_products[j]))

\* get_products, the loop over product_ids from the k-th id on
RECURSIVE select_products(_, _, _, _)
select_products(product_ids, all_products, k, products) ==
    IF k > Len(product_ids) THEN Returns(products)
    ELSE LET j == FirstMatch(all_products, product_ids[k], 1)
         IN  IF j = 0
             THEN RaisesErr(ProductNotFound, product_ids[k])
             ELSE select_products(product_ids, all_products, k + 1,
                                  Append(products, all_products[j]))

\* the except clauses shared by get_product and get_products
product_http_error(response) ==
    IF response.kind = "connect" THEN RaisesErr(ProductConnect, 0)
    ELSE IF response.kind = "timeout" THEN RaisesErr(ProductTimeout, 0)
    ELSE IF response.kind = "status" THEN RaisesErr(ProductHttpStatus, 0)
    ELSE RaisesErr(ProductOther, 0)

\* variant: get_products returns the products it found
get_products_partial(product_ids, response) ==
    IF response.kind = "ok"
    THEN select_products_skipping(product_ids, response.body, 1, <<>>)
    ELSE product_http_error(response)

\* HttpProductGateway.get_products
get_products(product_ids, response) ==
    IF response.kind = "ok"
    THEN select_products(product_ids, response.body, 1, <<>>)
    ELSE product_http_error(response)

\* HttpProductGateway.get_product
get_product(product_id, response) ==
    IF response.kind = "ok"
    THEN LET j == FirstMatch(response.body, product_id, 1)
         IN  IF j = 0 THEN RaisesErr(ProductNotFound, product_id)
             ELSE Returns(<<response.body[j]>>)
    ELSE product_http_error(response)

\* HttpUserGateway.get_user_by_cpf
get_user_by_cpf(cpf, response) ==
    IF response.kind = "not_found" THEN Returns(<<>>)
    ELSE IF response.kind = "ok" THEN Returns(response.body)
    ELSE IF response.kind = "connect" THEN RaisesErr(UserConnect, 0)
    ELSE IF response.kind = "timeout" THEN RaisesErr(UserTimeout, 0)
    ELSE IF response.kind = "status" THEN RaisesErr(UserHttpStatus, 0)
    ELSE RaisesErr(UserOther, 0)

\* the wrapped function of a gateway call, applied to the service's answer
HttpCall(op, arg, response) ==
    IF op = "get_products" THEN get_products(arg, response)
    ELSE IF op = "get_product" THEN get_product(arg[1], response)
    ELSE get_user_by_cpf(arg[1], response)

----------------------------------------------------------------------------
(* CircuitBreakerProductGateway, CircuitBreakerUserGateway *)

ProductGateway == "CircuitBreakerProductGateway"
UserGateway == "CircuitBreakerUserGateway"
GatewayClasses == {ProductGateway, UserGateway}

Methods(cls) ==
    IF cls = ProductGateway THEN {"get_product", "get_products"}
    ELSE {"get_user_by_cpf"}

ProductUnavailable == "Product service is currently unavailable. Please try again later."
CircuitOpenError == "CircuitOpenError"

\* variant: every gateway instance builds a breaker of its own
NeedsBreaker_always(cls) == TRUE

\* __init__: "if <class>._circuit_breaker is None"
NeedsBreaker(cls) == class_cb[cls] = 0

\* variant: a rejected product call answers with an empty list
product_gateway_result_soft(outcome, inner) ==
    IF outcome = "circuit_open" THEN Returns(<<>>) ELSE inner

\* CircuitBreakerProductGateway.get_product / get_products: the try/except
\* around circuit_breaker.execute
product_gateway_result(outcome, inner) ==
    IF outcome = "circuit_open" THEN RaisesErr(ProductUnavailable, 0) ELSE inner

\* variant: only the rejection is soft; a failed lookup raises its error
user_gateway_result_propagates(outcome, inner) ==
    IF outcome = "circuit_open" THEN Returns(<<>>) ELSE inner

\* CircuitBreakerUserGateway.get_user_by_cpf: the try/except around
\* circuit_breaker.execute
user_gateway_result(outcome, inner) ==
    IF outcome = "result" THEN inner ELSE Returns(<<>>)

\* what the caller of the outermost function sees: the gateway method's
\* outcome, or execute's own when it is called directly (g = 0)
CallerSees(g, outcome, inner) ==
    IF g = 0
    THEN IF outcome = "circuit_open" THEN RaisesErr(CircuitOpenError, 0) ELSE inner
    ELSE IF gws[g].class = ProductGateway THEN product_gateway_result(outcome, inner)
    ELSE user_gateway_result(outcome, inner)

----------------------------------------------------------------------------
(* Order, OrderStatus and the collaborators of the use cases: the order    *)
(* store (order repository) and the message broker                          *)

RECEIVED == "RECEIVED"
PREPARING == "PREPARING"
READY == "READY"
FINISHED == "FINISHED"
AWAITING_PAYMENT == "AWAITING_PAYMENT"
PAID == "PAID"
PAYMENT_FAILED == "PAYMENT_FAILED"
PAYMENT_ERROR == "PAYMENT_ERROR"
OrderStatus == {RECEIVED, PREPARING, READY, FINISHED, AWAITING_PAYMENT, PAID,
                PAYMENT_FAILED, PAYMENT_ERROR}

\* Python's None as a field value, and an attribute the object does not have
None == "None"
Absent == "(no attribute)"

\* A str is held as the sequence of its characters: "1,12" is <<"1", ",", "1", "2">>
Digits == <<"0", "1", "2", "3", "4", "5", "6", "7", "8", "9">>

\* str(n) of a non-negative int
RECURSIVE str(_)
str(n) ==
    IF n < 10 THEN <<Digits[n + 1]>>
    ELSE str(n \div 10) \o <<Digits[(n % 10) + 1]>>

\* int(text) of a non-empty str of decimal digits
RECURSIVE int(_)
int(text) ==
    LET last == CHOOSE d \in 0..9 : Digits[d + 1] = text[Len(text)]
    IN  IF Len(text) = 1 THEN last
        ELSE 10 * int(SubSeq(text, 1, Len(text) - 1)) + last

\* ','.join(map(str, product_ids)) from the k-th id on
RECURSIVE join_ids(_, _)
join_ids(product_ids, k) ==
    IF k > Len(product_ids) THEN <<>>
    ELSE IF k = Len(product_ids) THEN str(product_ids[k])
    ELSE str(product_ids[k]) \o <<",">> \o join_ids(product_ids, k + 1)

\* text.split(','): field is the part read since the last comma, k the
\* position of the next character
RECURSIVE split(_, _, _)
split(text, k, field) ==
    IF k > Len(text) THEN <<field>>
    ELSE IF text[k] = "," THEN <<field>> \o split(text, k + 1, <<>>)
    ELSE split(text, k + 1, Append(field, text[k]))

\* "list(map(int, order.product_ids.split(','))) if order.product_ids else []"
parse_product_ids(product_ids) ==
    IF product_ids = <<>> THEN <<>>
    ELSE LET fields == split(product_ids, 1, <<>>)
         IN  [k \in 1..Len(fields) |-> int(fields[k])]

\* Order.__init__
Order(id, total_price, product_ids, status, user_name, user_email, user_cpf) ==
    [id |-> id, total_price |-> total_price, product_ids |-> product_ids,
     status |-> status, user_name |-> user_name, user_email |-> user_email,
     user_cpf |-> user_cpf]

\* order_repository.get_by_id: the stored order as a one-element sequence,
\* None as the empty sequence
get_by_id(store, order_id) ==
    IF \E i \in 1..Len(store) : store[i].id = order_id
    THEN <<store[CHOOSE i \in 1..Len(store) : store[i].id = order_id]>>
    ELSE <<>>

\* order_repository.update: the stored order of the same id is replaced
update(store, order) ==
    [i \in 1..Len(store) |-> IF store[i].id = order.id THEN order ELSE store[i]]

RECURSIVE MaxId(_, _)
MaxId(store, i) ==
    IF i > Len(store) THEN 0
    ELSE LET rest == MaxId(store, i + 1)
         IN  IF store[i].id > rest THEN store[i].id ELSE rest

\* order_repository.add: the order is stored under a fresh id
add(store, order) == Append(store, [order EXCEPT !.id = MaxId(store, 1) + 1])

PaymentRequestsQueue == "payment_requests"

\* old_status: the status execute read; overwritten: the status the store held
\* when execute's update replaced it
NoRp == [pc |-> "idle", order_id |-> 0, order |-> <<>>, request |-> <<>>,
         publish_calls |-> 0, update_calls |-> 0, old_status |-> None,
         overwritten |-> None, queued_before |-> 0, result |-> NoResult]
\* applied: the statuses the update endpoint stored for the consumer's PUTs
NoWorker == [pc |-> "idle", queue |-> <<>>, body |-> <<>>, puts |-> <<>>,
             settled |-> "none", requeue |-> FALSE, raised |-> FALSE, handled |-> 0,
             log |-> <<>>, applied |-> <<>>]
NoCo == [pc |-> "idle", product_ids |-> <<>>, cpf |-> None, products |-> <<>>,
         total_price |-> 0, user |-> <<>>, user_lookups |-> 0, add_calls |-> 0,
         result |-> NoResult]
\* op: "get_order", "list_orders", "update_order_status", "delete_order".
\* deleted: the order the store's delete was called with.
\* todo: the stored orders the call still has to answer for; views: the
\* responses built so far
\* old_status: the status update_order_status read before it set the new one
\* before: the product breaker as list_orders found it; http_calls: the
\* product lookups of the call for which execute called the HTTP gateway
NoUc == [pc |-> "idle", op |-> "none", order_id |-> 0, status |-> None,
         old_status |-> None, todo |-> <<>>, views |-> <<>>, update_calls |-> 0,
         delete_calls |-> 0, deleted |-> <<>>, user_lookups |-> 0,
         before |-> <<>>, http_calls |-> 0, result |-> NoResult]

\* RabbitMQBroker: self.connection is None, a connection whose is_open is
\* true, or one whose is_open is false; self.channel is None, the channel of
\* self.connection, or the channel of an earlier connection. pc, reconnected,
\* publishes and log follow its publish calls: log holds how each one ended.
NoBroker == [connection |-> None, channel |-> None, pc |-> "idle", message |-> 0,
             reconnected |-> FALSE, publishes |-> 0, log |-> <<>>]

\* variant: a failed publish keeps the connection
publish_failed_keeps_connection(b) ==
    [b EXCEPT !.pc = "idle", !.log = Append(@, "publish_raised")]

\* the except clause of publish: self.connection = None, then raise
publish_failed(b) ==
    [b EXCEPT !.connection = None, !.pc = "idle", !.log = Append(@, "publish_raised")]

\* _ensure_connection has to connect
needs_connection(b) == b.connection = None \/ b.connection = "closed"

\* _ensure_connection when it has to connect: pika.BlockingConnection raises,
\* or it returns and connection.channel() raises after self.connection was
\* assigned, or both return
ensure_connection(b, outcome) ==
    CASE outcome = "connected" ->
           [b EXCEPT !.connection = "open", !.channel = "current", !.reconnected = TRUE]
      [] outcome = "connection_raises" -> b
      [] outcome = "channel_raises" ->
           [b EXCEPT !.connection = "open",
                     !.channel = IF @ = None THEN None ELSE "earlier"]

AppIdle ==
    /\ orders = <<>>
    /\ published = <<>>
    /\ broker = NoBroker
    /\ rp = NoRp
    /\ worker = NoWorker
    /\ co = NoCo
    /\ uc = NoUc

----------------------------------------------------------------------------
(* A task's call. pc: "idle", "running" (suspended in "await func"), "done".
   trial: the call is suspended in func, which execute called while the
   breaker was HALF_OPEN, and the breaker has been HALF_OPEN since.
   admitted: the breaker's state when execute called func *)

NoCall == [pc |-> "idle", cb |-> 0, gw |-> 0, op |-> "none", arg |-> <<>>,
           invoked |-> 0, trial |-> FALSE, admitted |-> "none",
           outcome |-> "none", result |-> NoResult]

Min(a, b) == IF a < b THEN a ELSE b

\* variant: a rejection is stamped as a failure, restarting the open period
Started_stamps_rejections(c, b, g, op, arg) ==
    /\ calls[c].pc = "idle"
    /\ b \in 1..Len(heap)
    /\ IF RaisesCircuitOpen(heap[b], now)
       THEN /\ calls' = [calls EXCEPT ![c] =
                   [pc |-> "done", cb |-> b, gw |-> g, op |-> op, arg |-> arg,
                    invoked |-> 0, trial |-> FALSE, admitted |-> "none",
                    outcome |-> "circuit_open",
                    result |-> CallerSees(g, "circuit_open", NoResult)]]
            /\ heap' = [heap EXCEPT ![b].last_failure_time = now]
       ELSE /\ calls' = [calls EXCEPT ![c] =
                   [pc |-> "running", cb |-> b, gw |-> g, op |-> op, arg |-> arg,
                    invoked |-> 1,
                    trial |-> BeforeCall(heap[b], now).state = HALF_OPEN,
                    admitted |-> BeforeCall(heap[b], now).state,
                    outcome |-> "none", result |-> NoResult]]
            /\ heap' = [heap EXCEPT ![b] = BeforeCall(heap[b], now)]
    /\ UNCHANGED <<now, class_cb, gws, failed, ok_closed, ho_fail, http, broker>>

\* execute up to its first suspension point: raise CircuitOpenError, or call
\* func. b is the breaker, g the gateway instance the call came through.
Started(c, b, g, op, arg) ==
    /\ calls[c].pc = "idle"
    /\ b \in 1..Len(heap)
    /\ IF RaisesCircuitOpen(heap[b], now)
       THEN /\ calls' = [calls EXCEPT ![c] =
                   [pc |-> "done", cb |-> b, gw |-> g, op |-> op, arg |-> arg,
                    invoked |-> 0, trial |-> FALSE, admitted |-> "none",
                    outcome |-> "circuit_open",
                    result |-> CallerSees(g, "circuit_open", NoResult)]]
            /\ heap' = heap
       ELSE /\ calls' = [calls EXCEPT ![c] =
                   [pc |-> "running", cb |-> b, gw |-> g, op |-> op, arg |-> arg,
                    invoked |-> 1,
                    trial |-> BeforeCall(heap[b], now).state = HALF_OPEN,
                    admitted |-> BeforeCall(heap[b], now).state,
                    outcome |-> "none", result |-> NoResult]]
            /\ heap' = [heap EXCEPT ![b] = BeforeCall(heap[b], now)]
    /\ UNCHANGED <<now, class_cb, gws, failed, ok_closed, ho_fail, http, broker>>

\* variant: an id missing from the catalog is not a failure of the service
Completed_spares_not_found(c, inner) ==
    /\ calls[c].pc = "running"
    /\ LET b == calls[c].cb
           raised == inner.kind = "raises"
           outcome == IF raised THEN "op_error" ELSE "result"
       IN  /\ heap' = [heap EXCEPT ![b] =
                          IF raised /\ inner.err # ProductNotFound
                          THEN handle_failure(heap[b], now)
                          ELSE IF raised THEN heap[b]
                          ELSE AfterSuccess(heap[b])]
           /\ calls' = [calls EXCEPT
                            ![c].pc = "done", ![c].trial = FALSE,
                            ![c].outcome = outcome,
                            ![c].result = CallerSees(calls[c].gw, outcome, inner)]
    /\ UNCHANGED <<now, class_cb, gws, http, broker>>

\* variant: a user lookup that the gateway answers with None is not counted
Completed_by_gateway_result(c, inner) ==
    /\ calls[c].pc = "running"
    /\ LET b == calls[c].cb
           raised == inner.kind = "raises"
           outcome == IF raised THEN "op_error" ELSE "result"
           seen == CallerSees(calls[c].gw, outcome, inner)
       IN  /\ heap' = [heap EXCEPT ![b] =
                          IF seen.kind = "raises" THEN handle_failure(heap[b], now)
                          ELSE IF raised THEN heap[b]
                          ELSE AfterSuccess(heap[b])]
           /\ calls' = [calls EXCEPT
                            ![c].pc = "done", ![c].trial = FALSE,
                            ![c].outcome = outcome, ![c].result = seen]
    /\ UNCHANGED <<now, class_cb, gws, http, broker>>

\* execute after "await func": inner is what func returned or raised
Completed(c, inner) ==
    /\ calls[c].pc = "running"
    /\ LET b == calls[c].cb
           raised == inner.kind = "raises"
           outcome == IF raised THEN "op_error" ELSE "result"
       IN  /\ heap' = [heap EXCEPT ![b] = IF raised THEN handle_failure(heap[b], now)
                                          ELSE AfterSuccess(heap[b])]
           /\ calls' = [d \in DOMAIN calls |->
                   IF d = c
                   THEN [calls[c] EXCEPT
                            !.pc = "done", !.trial = FALSE, !.outcome = outcome,
                            !.result = CallerSees(calls[c].gw, outcome, inner)]
                   ELSE IF calls[d].cb = b /\ heap'[b].state # HALF_OPEN
                   THEN [calls[d] EXCEPT !.trial = FALSE]
                   ELSE calls[d]]
    /\ UNCHANGED <<now, class_cb, gws, http, broker>>

\* the history of breaker b over a step in which a call on it ended
Recorded(b, raised) ==
    LET was_reset == ~raised /\ heap[b].state = HALF_OPEN /\ heap'[b].state = CLOSED
    IN  /\ failed' = IF raised
                     THEN [failed EXCEPT ![b] =
                              Min(@ + 1, heap[b].failure_threshold + 1)]
                     ELSE IF was_reset THEN [failed EXCEPT ![b] = 0]
                     ELSE failed
        /\ ok_closed' = IF was_reset THEN [ok_closed EXCEPT ![b] = FALSE]
                        ELSE IF ~raised /\ heap[b].state = CLOSED
                                /\ heap[b].failure_count > 0
                        THEN [ok_closed EXCEPT ![b] = TRUE]
                        ELSE ok_closed
        /\ ho_fail' = IF raised /\ heap[b].state = HALF_OPEN
                      THEN [ho_fail EXCEPT ![b] =
                               [time |-> now,
                                successes |-> heap[b].half_open_successes]]
                      ELSE ho_fail

\* a task calls execute(func) on the breaker
ExecuteBegin(c) == Started(c, 1, 0, "func", <<>>) /\ UNCHANGED app

\* func returned: the success branch of execute
ExecuteReturns(c) ==
    Completed(c, Returns(<<>>)) /\ Recorded(calls[c].cb, FALSE) /\ UNCHANGED app

\* variant: the except branch re-raises without calling _handle_failure
ExecuteRaises_unrecorded(c) ==
    /\ calls[c].pc = "running"
    /\ calls' = [calls EXCEPT ![c].pc = "done", ![c].outcome = "op_error",
                              ![c].result = RaisesErr("Exception", 0)]
    /\ UNCHANGED <<heap, now, class_cb, gws, failed, ok_closed, ho_fail, http, app>>

\* func raised: the except branch of execute
ExecuteRaises(c) ==
    Completed(c, RaisesErr("Exception", 0)) /\ Recorded(calls[c].cb, TRUE)
        /\ UNCHANGED app

\* the caller has the outcome; the task is free for its next call
Finish(c) ==
    /\ calls[c].pc = "done"
    /\ calls' = [calls EXCEPT ![c] = NoCall]
    /\ UNCHANGED <<heap, now, class_cb, gws, failed, ok_closed, ho_fail, http, app>>

\* the clock advances
Tick ==
    /\ now < MaxTime
    /\ now' = now + 1
    /\ UNCHANGED <<heap, calls, class_cb, gws, failed, ok_closed, ho_fail, http, app>>

NoHoFail == [time |-> -1, successes |-> 0]
NoHttp == [op |-> "none", ids |-> <<>>, response |-> ErrorResponse("none"),
           result |-> NoResult]

\* one breaker, constructed with any parameters of the bounded sets
Init ==
    /\ \E F \in Thresholds, T \in Timeouts, K \in HalfOpenQuotas :
          heap = <<CircuitBreaker(F, T, K)>>
    /\ now = 0
    /\ calls = [c \in Tasks |-> NoCall]
    /\ class_cb = [cls \in GatewayClasses |-> 0]
    /\ gws = <<>>
    /\ failed = <<0>>
    /\ ok_closed = <<FALSE>>
    /\ ho_fail = <<NoHoFail>>
    /\ http = NoHttp
    /\ AppIdle

Next ==
    \/ \E c \in Tasks : ExecuteBegin(c)
    \/ \E c \in Tasks : ExecuteReturns(c)
    \/ \E c \in Tasks : ExecuteRaises(c)
    \/ \E c \in Tasks : Finish(c)
    \/ Tick

Spec == Init /\ [][Next]_vars

----------------------------------------------------------------------------
(* SpecGw: gateway instances are built per request (orders_router's         *)
(* get_order_controller) and tasks call the services through them.          *)

Product(i, p) == [id |-> i, name |-> "product", price |-> p]
User == [username |-> "user", email |-> "email"]

\* CircuitBreakerProductGateway.__init__ / CircuitBreakerUserGateway.__init__
NewGateway(cls, failure_threshold, recovery_timeout, half_open_calls) ==
    /\ Len(gws) < MaxGateways
    /\ IF NeedsBreaker(cls)
       THEN /\ heap' = Append(heap, CircuitBreaker(failure_threshold,
                                                   recovery_timeout, half_open_calls))
            /\ class_cb' = [class_cb EXCEPT ![cls] = Len(heap) + 1]
       ELSE UNCHANGED <<heap, class_cb, broker>>
    /\ gws' = Append(gws, [class |-> cls, circuit_breaker |-> class_cb'[cls]])
    /\ UNCHANGED <<now, calls, failed, ok_closed, ho_fail, http, app>>

\* a task calls a method of gateway instance g:
\* "await self.circuit_breaker.execute(self.http_gateway.<op>, arg)"
GatewayCall(c, g, op, arg) ==
    /\ g \in 1..Len(gws)
    /\ op \in Methods(gws[g].class)
    /\ Started(c, gws[g].circuit_breaker, g, op, arg)
    /\ UNCHANGED app

\* the service answers (or fails to) and the wrapped http gateway method ends
HttpResponds(c, response) ==
    /\ calls[c].gw # 0
    /\ Completed(c, HttpCall(calls[c].op, calls[c].arg, response))
    /\ UNCHANGED <<failed, ok_closed, ho_fail, app>>

GwArgs(op) == IF op = "get_products" THEN {<<1, 2>>} ELSE {<<1>>}

GwResponses(op) ==
    IF op = "get_user_by_cpf"
    THEN {OkResponse(<<User>>), ErrorResponse("not_found"), ErrorResponse("status"),
          ErrorResponse("connect"), ErrorResponse("timeout")}
    ELSE {OkResponse(<<Product(1, 10)>>),
          OkResponse(<<Product(1, 10), Product(2, 20)>>),
          ErrorResponse("status"), ErrorResponse("connect"), ErrorResponse("timeout")}

GwOps == {"get_product", "get_products", "get_user_by_cpf"}

InitGw ==
    /\ heap = <<>>
    /\ now = 0
    /\ calls = [c \in GwTasks |-> NoCall]
    /\ class_cb = [cls \in GatewayClasses |-> 0]
    /\ gws = <<>>
    /\ failed = <<>>
    /\ ok_closed = <<>>
    /\ ho_fail = <<>>
    /\ http = NoHttp
    /\ AppIdle

NextGw ==
    \/ \E cls \in GatewayClasses :
          NewGateway(cls, EnvThreshold, EnvTimeout, EnvHalfOpenCalls)
    \/ \E c \in GwTasks, g \in 1..Len(gws), op \in GwOps :
          \E arg \in GwArgs(op) : GatewayCall(c, g, op, arg)
    \/ \E c \in GwTasks : \E response \in GwResponses(calls[c].op) :
          HttpResponds(c, response)
    \/ \E c \in GwTasks : Finish(c)
    \/ now < MaxGwTime /\ Tick

SpecGw == InitGw /\ [][NextGw]_vars

----------------------------------------------------------------------------
(* SpecHttp: HttpProductGateway.get_product / get_products applied to every *)
(* request and every answer of the bounded sets                             *)

RECURSIVE SeqsUpTo(_, _)
SeqsUpTo(S, n) ==
    IF n = 0 THEN {<<>>}
    ELSE LET shorter == SeqsUpTo(S, n - 1)
         IN  shorter \cup {Append(q, x) : q \in shorter, x \in S}

ProductIds == 1..NumProducts
Prices == {10, 20}
CatalogEntries == {Product(i, p) : i \in ProductIds, p \in Prices}
HttpResponses ==
    {OkResponse(body) : body \in SeqsUpTo(CatalogEntries, MaxCatalog)}
        \cup {ErrorResponse(k) : k \in {"status", "connect", "timeout"}}

InitHttp ==
    /\ heap = <<>>
    /\ now = 0
    /\ calls = [c \in Tasks |-> NoCall]
    /\ class_cb = [cls \in GatewayClasses |-> 0]
    /\ gws = <<>>
    /\ failed = <<>>
    /\ ok_closed = <<>>
    /\ ho_fail = <<>>
    /\ \E op \in {"get_product", "get_products"}, response \in HttpResponses :
          \E ids \in SeqsUpTo(ProductIds, MaxIds) :
             /\ op = "get_product" => Len(ids) = 1
             /\ http = [op |-> op, ids |-> ids, response |-> response,
                        result |-> NoResult]
    /\ AppIdle

\* await http_gateway.get_products(ids)
CallGetProducts ==
    /\ http.op = "get_products" /\ http.result.kind = "none"
    /\ http' = [http EXCEPT !.result = get_products(http.ids, http.response)]
    /\ UNCHANGED <<heap, now, calls, class_cb, gws, failed, ok_closed, ho_fail, app>>

\* await http_gateway.get_product(id)
CallGetProduct ==
    /\ http.op = "get_product" /\ http.result.kind = "none"
    /\ http' = [http EXCEPT !.result = get_product(http.ids[1], http.response)]
    /\ UNCHANGED <<heap, now, calls, class_cb, gws, failed, ok_closed, ho_fail, app>>

NextHttp == CallGetProducts \/ CallGetProduct

SpecHttp == InitHttp /\ [][NextHttp]_vars

----------------------------------------------------------------------------
(* SpecPay: RequestPaymentUseCase.execute over a stored order. The publish  *)
(* and the store update each either succeed or raise.                       *)

OrderNotFound == "Order with ID not found"
PublishError == "Erro ao publicar mensagem de pagamento"

\* "order.user_name if hasattr(order, 'user_name') else None"
customer_field(value) == IF value = Absent THEN None ELSE value

\* variant: the request carries no cpf
payment_request_without_cpf(order) ==
    [order_id |-> order.id,
     amount |-> order.total_price,
     customer_info |-> [name |-> customer_field(order.user_name),
                        email |-> customer_field(order.user_email),
                        cpf |-> None]]

\* the payment_request dict of execute
payment_request(order) ==
    [order_id |-> order.id,
     amount |-> order.total_price,
     customer_info |-> [name |-> customer_field(order.user_name),
                        email |-> customer_field(order.user_email),
                        cpf |-> customer_field(order.user_cpf)]]

\* variant: payment is requested only for an order that is not already paid,
\* finished or awaiting payment
RequestPaymentBegin_checked(order_id) ==
    /\ rp.pc = "idle"
    /\ Len(published) < MaxPayRequests
    /\ LET found == get_by_id(orders, order_id)
       IN  rp' = IF found = <<>>
                 THEN [NoRp EXCEPT !.pc = "done", !.order_id = order_id,
                                   !.queued_before = Len(published),
                                   !.result = RaisesErr(OrderNotFound, order_id)]
                 ELSE IF found[1].status \in {PAID, FINISHED, AWAITING_PAYMENT}
                 THEN [NoRp EXCEPT !.pc = "done", !.order_id = order_id,
                                   !.old_status = found[1].status,
                                   !.queued_before = Len(published),
                                   !.result = RaisesErr(PublishError, order_id)]
                 ELSE [NoRp EXCEPT !.pc = "publish", !.order_id = order_id,
                                   !.order = found,
                                   !.request = <<payment_request(found[1])>>,
                                   !.old_status = found[1].status,
                                   !.queued_before = Len(published)]
    /\ UNCHANGED <<heap, now, calls, class_cb, gws, failed, ok_closed, ho_fail, http,
                   orders, published, worker, co, uc, broker>>

\* execute(order_id) up to the publish: the lookup and the request
RequestPaymentBegin(order_id) ==
    /\ rp.pc = "idle"
    /\ Len(published) < MaxPayRequests
    /\ LET found == get_by_id(orders, order_id)
       IN  rp' = IF found = <<>>
                 THEN [NoRp EXCEPT !.pc = "done", !.order_id = order_id,
                                   !.queued_before = Len(published),
                                   !.result = RaisesErr(OrderNotFound, order_id)]
                 ELSE [NoRp EXCEPT !.pc = "publish", !.order_id = order_id,
                                   !.order = found,
                                   !.request = <<payment_request(found[1])>>,
                                   !.old_status = found[1].status,
                                   !.queued_before = Len(published)]
    /\ UNCHANGED <<heap, now, calls, class_cb, gws, failed, ok_closed, ho_fail, http,
                   orders, published, worker, co, uc, broker>>

\* message_broker.publish accepted the message; order.status is set in memory
PublishSucceeds ==
    /\ rp.pc = "publish"
    /\ published' = Append(published, [queue |-> PaymentRequestsQueue,
                                       message |-> rp.request[1]])
    /\ rp' = [rp EXCEPT !.pc = "update", !.publish_calls = @ + 1,
                        !.order = <<[rp.order[1] EXCEPT !.status = AWAITING_PAYMENT]>>]
    /\ UNCHANGED <<heap, now, calls, class_cb, gws, failed, ok_closed, ho_fail, http,
                   orders, worker, co, uc, broker>>

\* variant: a failed publish is logged and the status is persisted all the same
PublishFails_persists ==
    /\ rp.pc = "publish"
    /\ rp' = [rp EXCEPT !.pc = "update", !.publish_calls = @ + 1,
                        !.order = <<[rp.order[1] EXCEPT !.status = AWAITING_PAYMENT]>>]
    /\ UNCHANGED <<heap, now, calls, class_cb, gws, failed, ok_closed, ho_fail, http,
                   orders, published, worker, co, uc, broker>>

\* message_broker.publish raised: the except clause raises ValueError
PublishFails ==
    /\ rp.pc = "publish"
    /\ rp' = [rp EXCEPT !.pc = "done", !.publish_calls = @ + 1,
                        !.result = RaisesErr(PublishError, 0)]
    /\ UNCHANGED <<heap, now, calls, class_cb, gws, failed, ok_closed, ho_fail, http,
                   orders, published, worker, co, uc, broker>>

\* variant: the update is skipped when the stored status is no longer the one
\* execute read
UpdateSucceeds_if_unchanged ==
    /\ rp.pc = "update"
    /\ orders' = IF get_by_id(orders, rp.order_id) # <<>>
                    /\ get_by_id(orders, rp.order_id)[1].status # rp.old_status
                 THEN orders ELSE update(orders, rp.order[1])
    /\ rp' = [rp EXCEPT !.pc = "done", !.update_calls = @ + 1,
                        !.overwritten =
                            IF get_by_id(orders, rp.order_id) = <<>> THEN None
                            ELSE get_by_id(orders, rp.order_id)[1].status,
                        !.result = Returns(rp.order)]
    /\ UNCHANGED <<heap, now, calls, class_cb, gws, failed, ok_closed, ho_fail, http,
                   published, worker, co, uc, broker>>

\* order_repository.update stored the order; execute returns it
UpdateSucceeds ==
    /\ rp.pc = "update"
    /\ orders' = update(orders, rp.order[1])
    /\ rp' = [rp EXCEPT !.pc = "done", !.update_calls = @ + 1,
                        !.overwritten =
                            IF get_by_id(orders, rp.order_id) = <<>> THEN None
                            ELSE get_by_id(orders, rp.order_id)[1].status,
                        !.result = Returns(rp.order)]
    /\ UNCHANGED <<heap, now, calls, class_cb, gws, failed, ok_closed, ho_fail, http,
                   published, worker, co, uc, broker>>

\* variant: a failed store update is swallowed and the order is returned
UpdateFails_returns ==
    /\ rp.pc = "update"
    /\ rp' = [rp EXCEPT !.pc = "done", !.update_calls = @ + 1,
                        !.result = Returns(rp.order)]
    /\ UNCHANGED <<heap, now, calls, class_cb, gws, failed, ok_closed, ho_fail, http,
                   orders, published, worker, co, uc, broker>>

\* order_repository.update raised: the same except clause raises ValueError
UpdateFails ==
    /\ rp.pc = "update"
    /\ rp' = [rp EXCEPT !.pc = "done", !.update_calls = @ + 1,
                        !.result = RaisesErr(PublishError, 0)]
    /\ UNCHANGED <<heap, now, calls, class_cb, gws, failed, ok_closed, ho_fail, http,
                   orders, published, worker, co, uc, broker>>

\* the caller has the outcome of execute
RequestPaymentEnd ==
    /\ rp.pc = "done"
    /\ rp' = NoRp
    /\ UNCHANGED <<heap, now, calls, class_cb, gws, failed, ok_closed, ho_fail, http,
                   orders, published, worker, co, uc, broker>>

PayOrderIds == {1, 2}
PayAmounts == {100, 250}
CustomerValues(present) == {Absent, None, present}

\* one stored order, of any status, with any customer snapshot
InitPay ==
    /\ heap = <<>>
    /\ now = 0
    /\ calls = [c \in Tasks |-> NoCall]
    /\ class_cb = [cls \in GatewayClasses |-> 0]
    /\ gws = <<>>
    /\ failed = <<>>
    /\ ok_closed = <<>>
    /\ ho_fail = <<>>
    /\ http = NoHttp
    /\ \E status \in OrderStatus, total_price \in PayAmounts :
          \E user_name \in CustomerValues("name"), user_email \in CustomerValues("email"),
             user_cpf \in CustomerValues("cpf") :
             orders = <<Order(1, total_price, join_ids(<<1, 2>>, 1), status,
                              user_name, user_email, user_cpf)>>
    /\ published = <<>>
    /\ broker = NoBroker
    /\ rp = NoRp
    /\ worker = NoWorker
    /\ co = NoCo
    /\ uc = NoUc

NextPay ==
    \/ \E order_id \in PayOrderIds : RequestPaymentBegin(order_id)
    \/ PublishSucceeds
    \/ PublishFails
    \/ UpdateSucceeds
    \/ UpdateFails
    \/ RequestPaymentEnd

SpecPay == InitPay /\ [][NextPay]_vars

----------------------------------------------------------------------------
(* SpecWorker: the payment-response consumer (run_payment_response_worker). *)
(* A delivery's body is bytes; json.loads makes of it a dict, another JSON   *)
(* value, or an exception.                                                   *)

\* JSON values as Python holds them after json.loads
JInt(n) == [type |-> "int", int |-> n, str |-> ""]
JStr(text) == [type |-> "str", int |-> 0, str |-> text]
JNone == [type |-> "NoneType", int |-> 0, str |-> ""]
JList == [type |-> "list", int |-> 0, str |-> ""]
\* a key the object does not have
JMissing == [type |-> "missing", int |-> 0, str |-> ""]

\* the bodies: bytes that are not UTF-8, text that is not JSON, a JSON value
\* that is not an object, and a JSON object
NoFields == [order_id |-> JMissing, status |-> JMissing]
Undecodable == [kind |-> "undecodable", object |-> NoFields]
InvalidJson == [kind |-> "invalid", object |-> NoFields]
NonObject == [kind |-> "value", object |-> NoFields]
JsonObject(order_id, status) ==
    [kind |-> "object", object |-> [order_id |-> order_id, status |-> status]]

\* message = json.loads(body): the exception raised ("" when none) and the value
json_loads(body) ==
    IF body.kind = "invalid" THEN [raises |-> "JSONDecodeError", type |-> "none"]
    ELSE IF body.kind = "undecodable" THEN [raises |-> "UnicodeDecodeError", type |-> "none"]
    ELSE IF body.kind = "value" THEN [raises |-> "", type |-> "list"]
    ELSE [raises |-> "", type |-> "dict"]

\* message.get(key)
message_get(body, key) ==
    IF body.object[key].type = "missing" THEN JNone ELSE body.object[key]

\* Python truth value of a JSON value ("not order_id")
truthy(value) ==
    IF value.type = "int" THEN value.int # 0
    ELSE IF value.type = "str" THEN value.str # ""
    ELSE IF value.type = "list" THEN TRUE
    ELSE FALSE

Unmapped == "(unmapped)"

\* variant: the mapping before it was changed (APPROVED -> PREPARING,
\* REJECTED -> CANCELLED)
map_payment_status_to_order_status_old(payment_status) ==
    IF payment_status = JStr("APPROVED") THEN PREPARING
    ELSE IF payment_status = JStr("PENDING") THEN AWAITING_PAYMENT
    ELSE IF payment_status = JStr("REJECTED") THEN "CANCELLED"
    ELSE IF payment_status = JStr("ERROR") THEN PAYMENT_ERROR
    ELSE Unmapped

\* variant: a PENDING outcome sends the order back to RECEIVED
map_payment_status_to_order_status_pending(payment_status) ==
    IF payment_status = JStr("APPROVED") THEN PAID
    ELSE IF payment_status = JStr("PENDING") THEN RECEIVED
    ELSE IF payment_status = JStr("REJECTED") THEN PAYMENT_FAILED
    ELSE IF payment_status = JStr("ERROR") THEN PAYMENT_ERROR
    ELSE Unmapped

\* OrderUpdateService._map_payment_status_to_order_status: status_map.get;
\* None for a key that is not in the table
map_payment_status_to_order_status(payment_status) ==
    IF payment_status = JStr("APPROVED") THEN PAID
    ELSE IF payment_status = JStr("PENDING") THEN AWAITING_PAYMENT
    ELSE IF payment_status = JStr("REJECTED") THEN PAYMENT_FAILED
    ELSE IF payment_status = JStr("ERROR") THEN PAYMENT_ERROR
    ELSE Unmapped

\* update_order_status up to requests.put: the PUT it issues, none when the
\* status is not mapped or status_map.get raises TypeError (unhashable key),
\* which the method's own except clause absorbs
put_request(order_id, payment_status) ==
    IF payment_status.type = "list" THEN <<>>
    ELSE IF map_payment_status_to_order_status(payment_status) = Unmapped THEN <<>>
    ELSE <<[order_id |-> order_id,
            status |-> map_payment_status_to_order_status(payment_status)]>>

\* variant: a message with a missing field is sent to the update all the same
fields_missing_never(body) == FALSE

\* "if not order_id or not status"
fields_missing(body) ==
    ~truthy(message_get(body, "order_id")) \/ ~truthy(message_get(body, "status"))

\* variant: a poison message is put back on the queue
requeue_on_exception_true == TRUE

\* "requeue = False" of the callback's last except clause
requeue_on_exception == FALSE

\* variant: a message that was nacked stays at the head of the queue
settle_keeps_nacked(w, how, requeue) ==
    [w EXCEPT !.pc = "settled", !.settled = how, !.requeue = requeue,
              !.handled = @ + 1, !.log = Append(@, how),
              !.queue = IF how = "nack" THEN w.queue ELSE Tail(w.queue)]

\* ch.basic_ack / ch.basic_nack(requeue) on the delivery at the head of the
\* queue: the broker drops it, or puts it back when requeue is set
settle(w, how, requeue) ==
    [w EXCEPT !.pc = "settled", !.settled = how, !.requeue = requeue,
              !.handled = @ + 1, !.log = Append(@, how),
              !.queue = IF how = "nack" /\ requeue
                        THEN Append(Tail(w.queue), Head(w.queue))
                        ELSE Tail(w.queue)]

\* callback(ch, method, properties, body, order_service) up to requests.put,
\* or to its end when no PUT is issued
callback(w, body) ==
    LET parsed == json_loads(body)
        order_id == message_get(body, "order_id")
        status == message_get(body, "status")
        started == [w EXCEPT !.body = <<body>>, !.puts = <<>>,
                             !.settled = "none", !.requeue = FALSE]
    IN  IF parsed.raises = "JSONDecodeError" THEN settle(started, "ack", FALSE)
        ELSE IF parsed.raises # "" \/ parsed.type # "dict"
        THEN settle(started, "nack", requeue_on_exception)
        ELSE IF fields_missing(body) THEN settle(started, "ack", FALSE)
        ELSE IF put_request(order_id, status) = <<>>
        THEN settle(started, "ack", FALSE)
        ELSE [started EXCEPT !.pc = "put", !.puts = put_request(order_id, status)]

\* the broker delivers the message at the head of the queue to the callback
Deliver ==
    /\ worker.pc \in {"idle", "settled"}
    /\ worker.queue # <<>>
    /\ worker' = callback(worker, Head(worker.queue))
    /\ UNCHANGED <<heap, now, calls, class_cb, gws, failed, ok_closed, ho_fail, http,
                   orders, published, rp, co, uc, broker>>

PutOutcomes == {"ok", "status", "connection"}

\* variant: a failed update puts the message back on the queue
after_put_requeues(w, outcome) ==
    IF outcome = "ok" THEN settle(w, "ack", FALSE) ELSE settle(w, "nack", TRUE)

\* update_order_status after requests.put (2xx, another status, or
\* RequestException) returns a dict, and the callback acknowledges
after_put(w, outcome) == settle(w, "ack", FALSE)

\* the order service answers the PUT: on 2xx it has stored the new status
PutResponds(outcome) ==
    /\ worker.pc = "put"
    /\ LET put == worker.puts[1]
           found == IF put.order_id.type = "int"
                    THEN get_by_id(orders, put.order_id.int) ELSE <<>>
       IN  /\ outcome = "ok" => found # <<>>
           /\ orders' = IF outcome = "ok"
                        THEN update(orders, [found[1] EXCEPT !.status = put.status])
                        ELSE orders
    /\ worker' = [after_put(worker, outcome) EXCEPT
                      !.applied = IF outcome = "ok"
                                  THEN Append(@, worker.puts[1].status) ELSE @]
    /\ UNCHANGED <<heap, now, calls, class_cb, gws, failed, ok_closed, ho_fail, http,
                   published, rp, co, uc, broker>>

MessageOrderIds == {JMissing, JNone, JInt(0), JStr(""), JInt(1)}
MessageStatuses ==
    {JMissing, JNone, JStr(""), JStr("APPROVED"), JStr("PENDING"), JStr("REJECTED"),
     JStr("ERROR"), JStr("UNKNOWN"), JList}
Bodies ==
    {Undecodable, InvalidJson, NonObject}
        \cup {JsonObject(order_id, status) :
                 order_id \in MessageOrderIds, status \in MessageStatuses}

\* a backlog of response messages and one stored order
InitWorker ==
    /\ heap = <<>>
    /\ now = 0
    /\ calls = [c \in Tasks |-> NoCall]
    /\ class_cb = [cls \in GatewayClasses |-> 0]
    /\ gws = <<>>
    /\ failed = <<>>
    /\ ok_closed = <<>>
    /\ ho_fail = <<>>
    /\ http = NoHttp
    /\ \E status \in {RECEIVED, AWAITING_PAYMENT} :
          orders = <<Order(1, 100, join_ids(<<1, 2>>, 1), status, None, None, None)>>
    /\ published = <<>>
    /\ broker = NoBroker
    /\ rp = NoRp
    /\ \E queue \in SeqsUpTo(Bodies, MaxMessages) :
          /\ queue # <<>>
          /\ worker = [NoWorker EXCEPT !.queue = queue]
    /\ co = NoCo
    /\ uc = NoUc

NextWorker ==
    \/ Deliver
    \/ \E outcome \in PutOutcomes : PutResponds(outcome)

SpecWorker == InitWorker /\ [][NextWorker]_vars

\* start_consuming keeps delivering while the queue holds a message and the
\* callback has returned, and every PUT ends: the order service answers it or
\* the request fails
SpecWorkerFair ==
    /\ SpecWorker
    /\ WF_vars(Deliver)
    /\ WF_vars(\E outcome \in PutOutcomes : PutResponds(outcome))

----------------------------------------------------------------------------
(* RabbitMQBroker.publish over the broker object's connection (SpecBroker) *)

MaxPublishes == 3
BrokerMessages == {1, 2}
ConnectOutcomes == {"connected", "connection_raises", "channel_raises"}
PublishOutcomes == {"published", "declare_raises", "publish_raises"}

\* publish(queue, message) up to its try block: _ensure_connection returns, with
\* or without connecting, or raises out of publish
PublishBegin(message, outcome) ==
    /\ broker.pc = "idle"
    /\ broker.publishes < MaxPublishes
    /\ LET b == [broker EXCEPT !.message = message, !.publishes = @ + 1,
                               !.reconnected = FALSE]
       IN  IF needs_connection(broker)
           THEN IF outcome = "connected"
                THEN broker' = [ensure_connection(b, outcome) EXCEPT !.pc = "publishing"]
                ELSE broker' = [ensure_connection(b, outcome) EXCEPT
                                   !.log = Append(@, "connect_raised")]
           ELSE /\ outcome = "connected"
                /\ broker' = [b EXCEPT !.pc = "publishing"]
    /\ UNCHANGED <<heap, now, calls, class_cb, gws, failed, ok_closed, ho_fail, http,
                   orders, published, rp, worker, co, uc>>

\* the try block of publish: queue_declare and basic_publish on self.channel.
\* They need a channel whose connection is up; with self.channel None the
\* attribute access raises.
PublishEnds(outcome) ==
    /\ broker.pc = "publishing"
    /\ IF outcome = "published"
       THEN /\ broker.channel # None
            /\ broker.connection = "open"
            /\ published' = Append(published, [queue |-> PaymentRequestsQueue,
                                               body |-> broker.message])
            /\ broker' = [broker EXCEPT !.pc = "idle", !.log = Append(@, "ok")]
       ELSE /\ broker' = publish_failed(broker)
            /\ UNCHANGED published
    /\ UNCHANGED <<heap, now, calls, class_cb, gws, failed, ok_closed, ho_fail, http,
                   orders, rp, worker, co, uc>>

\* the server or the network closes the connection: is_open turns false
ConnectionLost ==
    /\ broker.connection = "open"
    /\ broker' = [broker EXCEPT !.connection = "closed"]
    /\ UNCHANGED <<heap, now, calls, class_cb, gws, failed, ok_closed, ho_fail, http,
                   orders, published, rp, worker, co, uc>>

\* __init__: the connection is made, or the failure is swallowed and both
\* attributes are None
InitBroker ==
    /\ heap = <<>>
    /\ now = 0
    /\ calls = [c \in Tasks |-> NoCall]
    /\ class_cb = [cls \in GatewayClasses |-> 0]
    /\ gws = <<>>
    /\ failed = <<>>
    /\ ok_closed = <<>>
    /\ ho_fail = <<>>
    /\ http = NoHttp
    /\ orders = <<>>
    /\ published = <<>>
    /\ rp = NoRp
    /\ worker = NoWorker
    /\ co = NoCo
    /\ uc = NoUc
    /\ broker \in {NoBroker,
                   [NoBroker EXCEPT !.connection = "open", !.channel = "current"]}

NextBroker ==
    \/ \E message \in BrokerMessages, outcome \in ConnectOutcomes :
          PublishBegin(message, outcome)
    \/ \E outcome \in PublishOutcomes : PublishEnds(outcome)
    \/ ConnectionLost

SpecBroker == InitBroker /\ [][NextBroker]_vars

----------------------------------------------------------------------------
(* SpecCreate: CreateOrderUseCase.execute over the product gateway, the     *)
(* user gateway and the order store. The product call is made in call slot  *)
(* 1 and the user call in call slot 2.                                      *)

\* "total_price += product["price"]" over the products from the k-th on
RECURSIVE sum_prices(_, _)
sum_prices(products, k) ==
    IF k > Len(products) THEN 0
    ELSE products[k].price + sum_prices(products, k + 1)

\* "if order_data.cpf"
cpf_given(cpf) == cpf # None /\ cpf # ""

\* variant: the order is saved with what was priced before the failure
after_products_failed_saves(c, products_result) ==
    [c EXCEPT !.pc = "save"]

\* a failed get_products leaves execute as the exception it raised
after_products_failed(c, products_result) ==
    [c EXCEPT !.pc = "done", !.result = products_result]

\* execute after "await self.product_gateway.get_products(...)", up to the
\* user lookup (a cpf was given) or to the save
after_products(c, products_result) ==
    IF products_result.kind = "raises"
    THEN after_products_failed(c, products_result)
    ELSE [c EXCEPT !.pc = IF cpf_given(c.cpf) THEN "user" ELSE "save",
                   !.products = products_result.val,
                   !.total_price = sum_prices(products_result.val, 1)]

\* variant: a user lookup that raises aborts the creation
after_user_strict(c, user_result) ==
    IF user_result.kind = "raises" \/ user_result.val = <<>>
    THEN [c EXCEPT !.pc = "done", !.result = RaisesErr("User not found", 0)]
    ELSE [c EXCEPT !.pc = "save", !.user = user_result.val]

\* execute after "await self.user_gateway.get_user_by_cpf(...)": "if user",
\* and "except ValueError"
after_user(c, user_result) ==
    IF user_result.kind = "raises" \/ user_result.val = <<>>
    THEN [c EXCEPT !.pc = "save"]
    ELSE [c EXCEPT !.pc = "save", !.user = user_result.val]

\* the ids without their repetitions, in the order of their first occurrence
RECURSIVE distinct_ids(_, _, _)
distinct_ids(product_ids, k, kept) ==
    IF k > Len(product_ids) THEN kept
    ELSE IF \E j \in 1..Len(kept) : kept[j] = product_ids[k]
    THEN distinct_ids(product_ids, k + 1, kept)
    ELSE distinct_ids(product_ids, k + 1, Append(kept, product_ids[k]))

\* variant: an id requested twice is stored once
new_order_distinct(c) ==
    Order(0, c.total_price, join_ids(distinct_ids(c.product_ids, 1, <<>>), 1), RECEIVED,
          IF c.user = <<>> THEN None ELSE c.user[1].username,
          IF c.user = <<>> THEN None ELSE c.user[1].email,
          None)

\* the Order execute builds for order_repository.add
new_order(c) ==
    Order(0, c.total_price, join_ids(c.product_ids, 1), RECEIVED,
          IF c.user = <<>> THEN None ELSE c.user[1].username,
          IF c.user = <<>> THEN None ELSE c.user[1].email,
          None)

\* the OrderPublic execute returns for the saved order
order_public(c, saved_order) ==
    [id |-> saved_order.id, total_price |-> saved_order.total_price,
     status |-> saved_order.status, products |-> c.products,
     user_info |-> IF c.user = <<>> THEN <<>>
                   ELSE <<[name |-> c.user[1].username, email |-> c.user[1].email]>>]

\* execute(order_data) up to its first suspension:
\* "await self.product_gateway.get_products(order_data.product_ids)"
CreateOrderBegin(product_ids, cpf) ==
    /\ co.pc = "idle"
    /\ Len(orders) < MaxOrders
    /\ Started(1, gws[1].circuit_breaker, 1, "get_products", product_ids)
    /\ co' = [NoCo EXCEPT !.pc = "products", !.product_ids = product_ids, !.cpf = cpf]
    /\ UNCHANGED <<orders, published, rp, worker, uc, broker>>

\* get_products has returned or raised: the prices are summed, or execute ends
ProductsAnswered ==
    /\ co.pc = "products"
    /\ calls[1].pc = "done"
    /\ co' = after_products(co, calls[1].result)
    /\ UNCHANGED <<heap, now, calls, class_cb, gws, failed, ok_closed, ho_fail, http,
                   orders, published, rp, worker, uc, broker>>

\* "await self.user_gateway.get_user_by_cpf(order_data.cpf)"
LookupUser ==
    /\ co.pc = "user"
    /\ Started(2, gws[2].circuit_breaker, 2, "get_user_by_cpf", <<co.cpf>>)
    /\ co' = [co EXCEPT !.pc = "user_wait", !.user_lookups = @ + 1]
    /\ UNCHANGED <<orders, published, rp, worker, uc, broker>>

\* get_user_by_cpf has returned
UserAnswered ==
    /\ co.pc = "user_wait"
    /\ calls[2].pc = "done"
    /\ co' = after_user(co, calls[2].result)
    /\ UNCHANGED <<heap, now, calls, class_cb, gws, failed, ok_closed, ho_fail, http,
                   orders, published, rp, worker, uc, broker>>

\* "saved_order = self.order_repository.add(order)" and the response
CreateOrderSave ==
    /\ co.pc = "save"
    /\ orders' = add(orders, new_order(co))
    /\ co' = [co EXCEPT !.pc = "done", !.add_calls = @ + 1,
                        !.result = Returns(<<order_public(co, orders'[Len(orders')])>>)]
    /\ UNCHANGED <<heap, now, calls, class_cb, gws, failed, ok_closed, ho_fail, http,
                   published, rp, worker, uc, broker>>

\* the caller has the outcome of execute
CreateOrderEnd ==
    /\ co.pc = "done"
    /\ co' = NoCo
    /\ calls' = [c \in Tasks |-> NoCall]
    /\ UNCHANGED <<heap, now, class_cb, gws, failed, ok_closed, ho_fail, http,
                   orders, published, rp, worker, uc, broker>>

CreateProductIds == {<<1, 2>>, <<2, 1, 1>>}
CreateCpfs == {None, "12345678900"}

\* one product gateway and one user gateway over the two class-level breakers,
\* as get_order_controller builds them; an empty store
InitCreate ==
    /\ heap = <<CircuitBreaker(EnvThreshold, EnvTimeout, EnvHalfOpenCalls),
                CircuitBreaker(EnvThreshold, EnvTimeout, EnvHalfOpenCalls)>>
    /\ now = 0
    /\ calls = [c \in Tasks |-> NoCall]
    /\ class_cb = [cls \in GatewayClasses |-> IF cls = ProductGateway THEN 1 ELSE 2]
    /\ gws = <<[class |-> ProductGateway, circuit_breaker |-> 1],
               [class |-> UserGateway, circuit_breaker |-> 2]>>
    /\ failed = <<>>
    /\ ok_closed = <<>>
    /\ ho_fail = <<>>
    /\ http = NoHttp
    /\ orders = <<>>
    /\ published = <<>>
    /\ broker = NoBroker
    /\ rp = NoRp
    /\ worker = NoWorker
    /\ co = NoCo
    /\ uc = NoUc

NextCreate ==
    \/ \E product_ids \in CreateProductIds, cpf \in CreateCpfs :
          CreateOrderBegin(product_ids, cpf)
    \/ \E c \in {1, 2} : \E response \in GwResponses(calls[c].op) :
          HttpResponds(c, response)
    \/ ProductsAnswered
    \/ LookupUser
    \/ UserAnswered
    \/ CreateOrderSave
    \/ CreateOrderEnd
    \/ now < MaxCreateTime /\ Tick

SpecCreate == InitCreate /\ [][NextCreate]_vars

----------------------------------------------------------------------------
(* The OrderController's operations on stored orders: get_order,            *)
(* ListOrdersUseCase, UpdateOrderStatusUseCase and DeleteOrderUseCase. Each  *)
(* builds the view of an order from the stored order and a product lookup    *)
(* made in call slot 1. Customer names and emails are held as plain strings. *)

OrderNotFoundOnUpdate == "Order not found"
OrderNotFoundOnGet == "Error retrieving order: Order with ID not found"

\* order_repository.list_orders(limit, skip)
list_orders(store, limit, skip) ==
    SubSeq(store, skip + 1, Min(skip + limit, Len(store)))

\* order_repository.delete(order)
delete(store, order) == SelectSeq(store, LAMBDA o : o.id # order.id)

\* "hasattr(order, 'user_name') and order.user_name"
has_text(value) == value \notin {Absent, None, ""}

\* "hasattr(updated_order, 'user_name') and updated_order.user_name is not None"
is_set(value) == value \notin {Absent, None}

\* a user_info dict; Absent marks a key the dict does not have
UserInfo(name, email) == <<[name |-> name, email |-> email]>>

\* variant: get_order adds each of the two fields on its own
get_order_user_info_each(order) ==
    IF has_text(order.user_name) \/ has_text(order.user_email)
    THEN UserInfo(IF has_text(order.user_name) THEN order.user_name ELSE Absent,
                  IF has_text(order.user_email) THEN order.user_email ELSE Absent)
    ELSE <<>>

\* OrderController.get_order: the email is looked at only under the name
get_order_user_info(order) ==
    IF has_text(order.user_name)
    THEN UserInfo(order.user_name,
                  IF has_text(order.user_email) THEN order.user_email ELSE Absent)
    ELSE <<>>

\* ListOrdersUseCase.execute: has_user_info and user_info
list_orders_user_info(order) ==
    IF has_text(order.user_name) \/ has_text(order.user_email)
    THEN UserInfo(IF has_text(order.user_name) THEN order.user_name ELSE Absent,
                  IF has_text(order.user_email) THEN order.user_email ELSE Absent)
    ELSE <<>>

\* UpdateOrderStatusUseCase.execute: has_user_info and user_info
update_order_status_user_info(order) ==
    IF is_set(order.user_name) \/ is_set(order.user_email)
    THEN UserInfo(IF is_set(order.user_name) THEN order.user_name ELSE Absent,
                  IF is_set(order.user_email) THEN order.user_email ELSE Absent)
    ELSE <<>>

user_info(op, order) ==
    IF op = "get_order" THEN get_order_user_info(order)
    ELSE IF op = "list_orders" THEN list_orders_user_info(order)
    ELSE update_order_status_user_info(order)

\* variant: a failed lookup leaves the product list empty
placeholders_none(product_ids) == <<>>

\* "[{"id": pid, "name": "Unknown", "price": 0} for pid in product_ids]"
placeholders(product_ids) ==
    [k \in 1..Len(product_ids) |->
        [id |-> product_ids[k], name |-> "Unknown", price |-> 0]]

\* product_details after "await self.product_gateway.get_products(product_ids)":
\* the list comprehension, or the except clause (every exception the gateway
\* raises is a ValueError)
product_details(product_ids, products_result) ==
    IF products_result.kind = "raises" THEN placeholders(product_ids)
    ELSE [k \in 1..Len(products_result.val) |->
             [id |-> products_result.val[k].id, name |-> products_result.val[k].name,
              price |-> products_result.val[k].price]]

\* the response dict of get_order, the OrderPublic of list and update
order_view(op, order, details) ==
    [id |-> order.id, total_price |-> order.total_price, status |-> order.status,
     products |-> details, user_info |-> user_info(op, order)]

\* the orders at the head of todo that have no product ids get their view
\* without a lookup ("if product_ids" is false)
RECURSIVE answer_unpriced(_)
answer_unpriced(u) ==
    IF u.todo = <<>> THEN u
    ELSE IF parse_product_ids(u.todo[1].product_ids) # <<>> THEN u
    ELSE answer_unpriced([u EXCEPT !.todo = Tail(u.todo),
                                   !.views = Append(u.views,
                                                    order_view(u.op, u.todo[1], <<>>))])

\* the call from where u stands up to its next suspension, the await of
\* get_products for the order at the head of todo, or to its return
Proceed(u) ==
    LET v == answer_unpriced(u)
    IN  IF v.todo = <<>>
        THEN /\ uc' = [v EXCEPT !.pc = "done", !.result = Returns(v.views)]
             /\ UNCHANGED <<heap, now, calls, class_cb, gws, failed, ok_closed,
                            ho_fail, http, broker>>
        ELSE /\ Started(1, gws[1].circuit_breaker, 1, "get_products",
                        parse_product_ids(v.todo[1].product_ids))
             /\ uc' = [v EXCEPT !.pc = "products"]

\* OrderController.get_order(order_id)
GetOrder(order_id) ==
    /\ uc.pc = "idle"
    /\ calls[1].pc = "idle"
    /\ LET found == get_by_id(orders, order_id)
           u == [NoUc EXCEPT !.op = "get_order", !.order_id = order_id]
       IN  IF found = <<>>
           THEN /\ uc' = [u EXCEPT !.pc = "done",
                                   !.result = RaisesErr(OrderNotFoundOnGet, order_id)]
                /\ UNCHANGED <<heap, now, calls, class_cb, gws, failed, ok_closed,
                               ho_fail, http, broker>>
           ELSE Proceed([u EXCEPT !.todo = found])
    /\ UNCHANGED <<orders, published, rp, worker, co, broker>>

\* ListOrdersUseCase.execute(limit, skip)
ListOrders(limit, skip) ==
    /\ uc.pc = "idle"
    /\ calls[1].pc = "idle"
    /\ Proceed([NoUc EXCEPT !.op = "list_orders",
                            !.before = <<heap[gws[1].circuit_breaker]>>,
                            !.todo = list_orders(orders, limit, skip)])
    /\ UNCHANGED <<orders, published, rp, worker, co, broker>>

\* variant: a FINISHED order keeps its status
set_status_checked(order, status) ==
    IF order.status = FINISHED THEN order ELSE [order EXCEPT !.status = status]

\* variant: the order is stored anew, priced at 0, with the status
set_status_repriced(order, status) ==
    [order EXCEPT !.status = status, !.total_price = 0]

\* "db_order.status = new_status": any status overwrites any other
set_status(order, status) == [order EXCEPT !.status = status]

\* variant: an absent order is answered as if it had been updated
update_not_found_ignored(u) == [u EXCEPT !.pc = "done", !.result = Returns(<<>>)]

\* "if not db_order: raise ValueError("Order not found")"
update_not_found(u) ==
    [u EXCEPT !.pc = "done", !.result = RaisesErr(OrderNotFoundOnUpdate, u.order_id)]

\* UpdateOrderStatusUseCase.execute(order_id, status): the lookup, the store
\* update, and the response up to the product lookup
UpdateOrderStatus(order_id, status) ==
    /\ uc.pc = "idle"
    /\ calls[1].pc = "idle"
    /\ LET found == get_by_id(orders, order_id)
           u == [NoUc EXCEPT !.op = "update_order_status", !.order_id = order_id,
                             !.status = status]
       IN  IF found = <<>>
           THEN /\ uc' = update_not_found(u)
                /\ UNCHANGED <<heap, now, calls, class_cb, gws, failed, ok_closed,
                               ho_fail, http, orders, broker>>
           ELSE LET updated_order == set_status(found[1], status)
                IN  /\ orders' = update(orders, updated_order)
                    /\ Proceed([u EXCEPT !.update_calls = 1,
                                         !.old_status = found[1].status,
                                         !.todo = <<updated_order>>])
    /\ UNCHANGED <<published, rp, worker, co, broker>>

\* variant: a status update whose product lookup failed is taken back
LookupAnswered_reverts ==
    /\ uc.pc = "products"
    /\ calls[1].pc = "done"
    /\ LET order == uc.todo[1]
           details == product_details(parse_product_ids(order.product_ids),
                                      calls[1].result)
           v == answer_unpriced([uc EXCEPT !.todo = Tail(uc.todo),
                                           !.http_calls = @ + calls[1].invoked,
                                           !.views = Append(uc.views,
                                                            order_view(uc.op, order,
                                                                       details))])
       IN  uc' = IF v.todo = <<>>
                 THEN [v EXCEPT !.pc = "done", !.result = Returns(v.views)]
                 ELSE [v EXCEPT !.pc = "next"]
    /\ calls' = [calls EXCEPT ![1] = NoCall]
    /\ orders' = IF uc.op = "update_order_status"
                    /\ calls[1].result.kind = "raises"
                 THEN update(orders, set_status(uc.todo[1], uc.old_status))
                 ELSE orders
    /\ UNCHANGED <<heap, now, class_cb, gws, failed, ok_closed, ho_fail, http,
                   published, rp, worker, co, broker>>

\* get_products has returned or raised: the order's view is built, and the
\* call returns unless the list has another order to look up
LookupAnswered ==
    /\ uc.pc = "products"
    /\ calls[1].pc = "done"
    /\ LET order == uc.todo[1]
           details == product_details(parse_product_ids(order.product_ids),
                                      calls[1].result)
           v == answer_unpriced([uc EXCEPT !.todo = Tail(uc.todo),
                                           !.http_calls = @ + calls[1].invoked,
                                           !.views = Append(uc.views,
                                                            order_view(uc.op, order,
                                                                       details))])
       IN  uc' = IF v.todo = <<>>
                 THEN [v EXCEPT !.pc = "done", !.result = Returns(v.views)]
                 ELSE [v EXCEPT !.pc = "next"]
    /\ calls' = [calls EXCEPT ![1] = NoCall]
    /\ UNCHANGED <<heap, now, class_cb, gws, failed, ok_closed, ho_fail, http,
                   orders, published, rp, worker, co, broker>>

\* the loop of ListOrdersUseCase.execute reaches the next order's lookup
\* variant: deleting an absent order is a success, the store's delete is
\* called with the id alone
after_delete_idempotent(u, found) ==
    [u EXCEPT !.pc = "done", !.delete_calls = 1, !.result = Returns(<<>>)]

\* DeleteOrderUseCase.execute: look the order up, fail "not found" if it is
\* absent, else call the store's delete with it
after_delete(u, found) ==
    IF found = <<>>
    THEN [u EXCEPT !.pc = "done", !.result = RaisesErr(OrderNotFound, u.order_id)]
    ELSE [u EXCEPT !.pc = "done", !.delete_calls = 1, !.deleted = found,
                   !.result = Returns(<<>>)]

\* OrderController.delete_order
DeleteOrder(order_id) ==
    /\ uc.pc = "idle"
    /\ LET found == get_by_id(orders, order_id)
           u == [NoUc EXCEPT !.op = "delete_order", !.order_id = order_id]
       IN  /\ uc' = after_delete(u, found)
           /\ orders' = IF uc'.deleted = <<>> THEN orders
                        ELSE delete(orders, uc'.deleted[1])
    /\ UNCHANGED <<heap, now, calls, class_cb, gws, failed, ok_closed, ho_fail, http,
                   published, rp, worker, co, broker>>

ListNext ==
    /\ uc.pc = "next"
    /\ Proceed(uc)
    /\ UNCHANGED <<orders, published, rp, worker, co, broker>>

\* the caller has the outcome of the controller's call
ControllerReturns ==
    /\ uc.pc = "done"
    /\ uc' = NoUc
    /\ UNCHANGED <<heap, now, calls, class_cb, gws, failed, ok_closed, ho_fail, http,
                   orders, published, rp, worker, co, broker>>

----------------------------------------------------------------------------
(* SpecRead: the three operations that answer with the view of an order,    *)
(* over a store of one or two orders and the product gateway                *)

ReadOrderIds == {1, 3}
ReadProductIds == {<<>>, <<1, 2>>, <<2, 1, 1>>, <<12>>}
ReadNames == {None, "", "name"}
ReadEmails == {None, "email"}
ReadLimits == {1, 2}
ReadSkips == {0, 1}

\* a second stored order, so that a list has more than one order to answer for
SecondOrder == Order(2, 30, join_ids(<<2, 1>>, 1), PREPARING, "name", None, None)

\* the gateways as get_order_controller builds them, over the class-level
\* breakers; no call in progress
GatewaysBuilt ==
    /\ heap = <<CircuitBreaker(EnvThreshold, EnvTimeout, EnvHalfOpenCalls),
                CircuitBreaker(EnvThreshold, EnvTimeout, EnvHalfOpenCalls)>>
    /\ now = 0
    /\ calls = [c \in Tasks |-> NoCall]
    /\ class_cb = [cls \in GatewayClasses |-> IF cls = ProductGateway THEN 1 ELSE 2]
    /\ gws = <<[class |-> ProductGateway, circuit_breaker |-> 1],
               [class |-> UserGateway, circuit_breaker |-> 2]>>
    /\ failed = <<>>
    /\ ok_closed = <<>>
    /\ ho_fail = <<>>
    /\ http = NoHttp

InitRead ==
    /\ GatewaysBuilt
    /\ \E status \in OrderStatus, product_ids \in ReadProductIds :
          \E user_name \in ReadNames, user_email \in ReadEmails :
             LET first == Order(1, 30, join_ids(product_ids, 1), status,
                                user_name, user_email, None)
             IN  orders \in {<<first>>, <<first, SecondOrder>>}
    /\ published = <<>>
    /\ broker = NoBroker
    /\ rp = NoRp
    /\ worker = NoWorker
    /\ co = NoCo
    /\ uc = NoUc

NextRead ==
    \/ \E order_id \in ReadOrderIds : GetOrder(order_id)
    \/ \E limit \in ReadLimits, skip \in ReadSkips : ListOrders(limit, skip)
    \/ \E order_id \in ReadOrderIds, status \in OrderStatus :
          UpdateOrderStatus(order_id, status)
    \/ \E order_id \in ReadOrderIds : DeleteOrder(order_id)
    \/ \E response \in GwResponses("get_products") : HttpResponds(1, response)
    \/ LookupAnswered
    \/ ListNext
    \/ ControllerReturns

SpecRead == InitRead /\ [][NextRead]_vars

----------------------------------------------------------------------------
(* SpecList: orders that all have products are listed while the catalog is  *)
(* down: every HTTP call of the product gateway fails, or finds no product.  *)
(* No time passes: the calls are made within the recovery timeout.           *)

ListProductIds == {<<1, 2>>, <<12>>}
ListSkips == {0, 1}
ListResponses == {ErrorResponse("status"), ErrorResponse("connect"),
                  ErrorResponse("timeout"), OkResponse(<<>>)}

InitList ==
    /\ GatewaysBuilt
    /\ \E ids \in [1..MaxOrders -> ListProductIds] :
          orders = [i \in 1..MaxOrders |->
                       Order(i, 30, join_ids(ids[i], 1), RECEIVED, None, None, None)]
    /\ published = <<>>
    /\ broker = NoBroker
    /\ rp = NoRp
    /\ worker = NoWorker
    /\ co = NoCo
    /\ uc = NoUc

NextList ==
    \/ \E limit \in 1..MaxOrders, skip \in ListSkips : ListOrders(limit, skip)
    \/ \E response \in ListResponses : HttpResponds(1, response)
    \/ LookupAnswered
    \/ ListNext
    \/ ControllerReturns

SpecList == InitList /\ [][NextList]_vars

----------------------------------------------------------------------------
(* SpecLife: the life of one stored order under the operations that write    *)
(* its status: the direct update, the payment request, and the consumer's    *)
(* handling of the payment service's responses. The three run in different   *)
(* processes over the one database (the consumer is a process of its own,    *)
(* each API request builds its own session and repository), so their steps   *)
(* interleave.                                                               *)

LifeOrderIds == {1, 2}
LifeTargets == {PREPARING, AWAITING_PAYMENT}
LifeCodes == {"APPROVED", "PENDING"}
LifePutOutcomes == {"ok", "connection"}

\* the payment service answers a request it has received: a response for
\* that order is put on payment_responses (delivery is at least once, so a
\* request may be answered more than once)
ResponseArrives(code) ==
    /\ Len(worker.queue) + worker.handled < MaxResponses
    /\ \E i \in 1..Len(published) :
          worker' = [worker EXCEPT !.queue =
                        Append(@, JsonObject(JInt(published[i].message.order_id),
                                             JStr(code)))]
    /\ UNCHANGED <<heap, now, calls, class_cb, gws, failed, ok_closed, ho_fail, http,
                   orders, published, rp, co, uc, broker>>

LifeResponses == {OkResponse(<<Product(1, 10), Product(2, 20)>>),
                  ErrorResponse("connect")}

\* one order as a creation stored it
InitLife ==
    /\ GatewaysBuilt
    /\ orders = <<Order(1, 30, join_ids(<<1, 2>>, 1), RECEIVED, "name", "email", None)>>
    /\ published = <<>>
    /\ broker = NoBroker
    /\ rp = NoRp
    /\ worker = NoWorker
    /\ co = NoCo
    /\ uc = NoUc

NextLife ==
    \/ \E order_id \in LifeOrderIds, status \in LifeTargets :
          UpdateOrderStatus(order_id, status)
    \/ \E response \in LifeResponses : HttpResponds(1, response)
    \/ LookupAnswered
    \/ ControllerReturns
    \/ \E order_id \in LifeOrderIds : RequestPaymentBegin(order_id)
    \/ PublishSucceeds
    \/ PublishFails
    \/ UpdateSucceeds
    \/ UpdateFails
    \/ RequestPaymentEnd
    \/ \E code \in LifeCodes : ResponseArrives(code)
    \/ Deliver
    \/ \E outcome \in LifePutOutcomes : PutResponds(outcome)

SpecLife == InitLife /\ [][NextLife]_vars

----------------------------------------------------------------------------
(* Steps of one task's call, as seen from outside *)

Begins(c) == calls[c].pc = "idle" /\ calls'[c].pc # "idle"
Returned(c) == calls[c].pc = "running" /\ calls'[c].pc = "done"
                   /\ calls'[c].outcome = "result"
Raised(c) == calls[c].pc = "running" /\ calls'[c].pc = "done"
                 /\ calls'[c].outcome = "op_error"
Breakers == 1..Len(heap)

----------------------------------------------------------------------------
(* Properties of the CircuitBreaker, checked under Spec *)

\* C1: a breaker that starts CLOSED with failure_count 0 is still CLOSED after
\* fewer than F failed executions, and the F-th failed execution (no reset in
\* between) moves it to OPEN.
C1_OpensAtThreshold ==
    /\ [](\A b \in Breakers :
             failed[b] < heap[b].failure_threshold => heap[b].state = CLOSED)
    /\ [][\A b \in Breakers :
             (failed[b] < heap[b].failure_threshold
                 /\ failed'[b] = heap[b].failure_threshold)
             => heap'[b].state = OPEN]_vars

C1_Witness ==
    /\ heap[1].failure_threshold >= 2
    /\ failed[1] = heap[1].failure_threshold
    /\ heap[1].state = OPEN

\* C2: while the breaker is OPEN and the time since the last recorded failure
\* is at most the recovery timeout, every execute call fails with
\* CircuitOpenError, the wrapped operation is not invoked, and the breaker is
\* left as it was.
C2_RejectsWhileOpen ==
    [][\A c \in Tasks :
          (Begins(c)
              /\ heap[calls'[c].cb].state = OPEN
              /\ now - heap[calls'[c].cb].last_failure_time
                     <= heap[calls'[c].cb].recovery_timeout)
          => /\ calls'[c].pc = "done"
             /\ calls'[c].outcome = "circuit_open"
             /\ calls'[c].invoked = 0
             /\ heap' = heap]_vars

C2_Witness ==
    \E c \in Tasks :
        /\ calls[c].outcome = "circuit_open"
        /\ heap[1].state = OPEN
        /\ heap[1].recovery_timeout >= 1
        /\ now - heap[1].last_failure_time = heap[1].recovery_timeout

\* C3 (as stated): when the breaker is OPEN and the time since the last failure
\* is >= T, exactly T included, the next execute call moves it to HALF_OPEN with
\* half_open_successes = 0 and invokes the wrapped operation.
C3_HalfOpenAtTimeout ==
    [][\A c \in Tasks :
          (Begins(c)
              /\ heap[calls'[c].cb].state = OPEN
              /\ now - heap[calls'[c].cb].last_failure_time
                     >= heap[calls'[c].cb].recovery_timeout)
          => /\ calls'[c].pc = "running"
             /\ calls'[c].invoked = 1
             /\ heap'[calls'[c].cb].state = HALF_OPEN
             /\ heap'[calls'[c].cb].half_open_successes = 0]_vars

\* C3 (amended): when the breaker is OPEN and the time since the last failure
\* is strictly greater than T, the next execute call moves it to HALF_OPEN with
\* half_open_successes = 0 and invokes the wrapped operation.
C3_HalfOpenAfterTimeout ==
    [][\A c \in Tasks :
          (Begins(c)
              /\ heap[calls'[c].cb].state = OPEN
              /\ now - heap[calls'[c].cb].last_failure_time
                     > heap[calls'[c].cb].recovery_timeout)
          => /\ calls'[c].pc = "running"
             /\ calls'[c].invoked = 1
             /\ heap'[calls'[c].cb].state = HALF_OPEN
             /\ heap'[calls'[c].cb].half_open_successes = 0]_vars

C3_Witness ==
    /\ heap[1].state = HALF_OPEN
    /\ heap[1].half_open_successes = 0
    /\ ho_fail[1].successes >= 1
    /\ heap[1].last_failure_time = ho_fail[1].time
    /\ \E c \in Tasks : calls[c].pc = "running" /\ calls[c].invoked = 1

\* C4: in HALF_OPEN each successful execution increments half_open_successes;
\* when the counter reaches the quota K the breaker resets to CLOSED with
\* failure_count = 0 and half_open_successes = 0, and with fewer than K
\* successes it stays HALF_OPEN.
C4_HalfOpenSuccess ==
    [][\A c \in Tasks :
          (Returned(c) /\ heap[calls[c].cb].state = HALF_OPEN)
          => LET old == heap[calls[c].cb]
                 new == heap'[calls[c].cb]
             IN  IF old.half_open_successes + 1 >= old.half_open_calls
                 THEN /\ new.state = CLOSED
                      /\ new.failure_count = 0
                      /\ new.half_open_successes = 0
                 ELSE /\ new.state = HALF_OPEN
                      /\ new.half_open_successes = old.half_open_successes + 1
                      /\ new.failure_count = old.failure_count]_vars

C4_Witness ==
    /\ heap[1].half_open_calls = 2
    /\ heap[1].state = CLOSED
    /\ heap[1].failure_count = 0
    /\ ho_fail[1].time >= 0
    /\ \E c \in Tasks : calls[c].outcome = "result"

\* C5: a single failed execution while HALF_OPEN moves the breaker to OPEN at
\* once and records the failure time, so that no call is let through until more
\* than the recovery timeout has elapsed since that failure; and every
\* HALF_OPEN period starts with half_open_successes = 0.
C5_HalfOpenFailure ==
    /\ [][\A c \in Tasks :
             (Raised(c) /\ heap[calls[c].cb].state = HALF_OPEN)
             => /\ heap'[calls[c].cb].state = OPEN
                /\ heap'[calls[c].cb].last_failure_time = now]_vars
    /\ [][\A c \in Tasks :
             (Begins(c) /\ calls'[c].pc = "running"
                 /\ ho_fail[calls'[c].cb].time >= 0)
             => now - ho_fail[calls'[c].cb].time
                    > heap[calls'[c].cb].recovery_timeout]_vars
    /\ [][\A b \in Breakers :
             (heap[b].state # HALF_OPEN /\ heap'[b].state = HALF_OPEN)
             => heap'[b].half_open_successes = 0]_vars

C5_Witness ==
    /\ ho_fail[1].successes >= 1
    /\ heap[1].state = HALF_OPEN
    /\ heap[1].half_open_successes = 0
    /\ heap[1].recovery_timeout >= 1

\* C6: a successful execution while CLOSED changes neither the state nor
\* failure_count, so failures accumulate across intervening successes: while
\* CLOSED, failure_count is the number of failures since construction or the
\* last reset, whatever successes came between them.
C6_SuccessKeepsCount ==
    /\ [][\A c \in Tasks :
             (Returned(c) /\ heap[calls[c].cb].state = CLOSED)
             => heap'[calls[c].cb] = heap[calls[c].cb]]_vars
    /\ [](\A b \in Breakers :
             heap[b].state = CLOSED => heap[b].failure_count = failed[b])

C6_Witness ==
    /\ ok_closed[1]
    /\ heap[1].state = OPEN
    /\ heap[1].failure_threshold >= 2
    /\ failed[1] = heap[1].failure_threshold

\* C7: every execute call invokes the wrapped operation at most once and ends
\* in exactly one of three outcomes: it returns the operation's result (invoked
\* once), it raises CircuitOpenError without invoking it, or it re-raises the
\* operation's own exception (invoked once) after the failure was recorded in
\* the breaker.
C7_ThreeOutcomes ==
    /\ [](\A c \in Tasks :
             /\ calls[c].invoked <= 1
             /\ calls[c].pc = "running" => calls[c].invoked = 1
             /\ calls[c].pc = "done" =>
                   \/ /\ calls[c].result = Returns(<<>>)
                      /\ calls[c].invoked = 1
                   \/ /\ calls[c].result = RaisesErr(CircuitOpenError, 0)
                      /\ calls[c].invoked = 0
                   \/ /\ calls[c].result = RaisesErr("Exception", 0)
                      /\ calls[c].invoked = 1)
    /\ [][\A c \in Tasks :
             (calls[c].pc = "running" /\ calls'[c].pc = "done"
                 /\ calls'[c].result.kind = "raises")
             => /\ heap'[calls[c].cb].last_failure_time = now
                /\ heap[calls[c].cb].state = CLOSED =>
                      heap'[calls[c].cb].failure_count
                          = heap[calls[c].cb].failure_count + 1]_vars

C7_Witness ==
    /\ \E c \in Tasks : calls[c].pc = "done" /\ calls[c].result.err = "Exception"
    /\ \E c \in Tasks : calls[c].pc = "done" /\ calls[c].result.err = CircuitOpenError

----------------------------------------------------------------------------
(* Properties of the gateways, checked under SpecGw *)

Gateways == 1..Len(gws)

\* C8: there is exactly one breaker per dependency: all instances of one
\* gateway class hold the same breaker, the two classes hold different ones, a
\* failure recorded through one instance is recorded in the breaker of every
\* instance of its class, and a call to one dependency leaves the other
\* dependency's breaker unchanged.
C8_OneBreakerPerDependency ==
    /\ [](\A g1, g2 \in Gateways :
             /\ gws[g1].circuit_breaker \in 1..Len(heap)
             /\ (gws[g1].class = gws[g2].class)
                   <=> (gws[g1].circuit_breaker = gws[g2].circuit_breaker))
    /\ [][\A c \in GwTasks : \A g \in Gateways :
             (calls[c].pc = "running" /\ calls'[c].pc = "done"
                 /\ calls'[c].outcome = "op_error"
                 /\ gws[g].class = gws[calls[c].gw].class)
             => /\ heap'[gws[g].circuit_breaker].last_failure_time = now
                /\ heap[gws[g].circuit_breaker].state = CLOSED =>
                      heap'[gws[g].circuit_breaker].failure_count
                          = heap[gws[g].circuit_breaker].failure_count + 1]_vars
    /\ [][\A c \in GwTasks : \A g \in Gateways :
             (calls'[c] # calls[c] /\ calls'[c].gw # 0
                 /\ gws[g].class # gws[calls'[c].gw].class)
             => heap'[gws[g].circuit_breaker] = heap[gws[g].circuit_breaker]]_vars

C8_Witness ==
    /\ Len(gws) = 2
    /\ gws[1].class = ProductGateway /\ gws[2].class = ProductGateway
    /\ heap[gws[1].circuit_breaker].state = OPEN
    /\ heap[gws[1].circuit_breaker].failure_count = 2
    /\ calls[1].pc = "done" /\ calls[1].gw = 2 /\ calls[1].outcome = "circuit_open"

\* C9: when the product breaker rejects a call (it is OPEN and at most the
\* recovery timeout has elapsed since the last failure), get_product and
\* get_products of CircuitBreakerProductGateway fail with the error "Product
\* service is currently unavailable" and no HTTP request is made.
C9_ProductUnavailable ==
    [][\A c \in GwTasks :
          (Begins(c)
              /\ calls'[c].op \in {"get_product", "get_products"}
              /\ heap[calls'[c].cb].state = OPEN
              /\ now - heap[calls'[c].cb].last_failure_time
                     <= heap[calls'[c].cb].recovery_timeout)
          => /\ calls'[c].pc = "done"
             /\ calls'[c].result = RaisesErr(ProductUnavailable, 0)
             /\ calls'[c].invoked = 0]_vars

C9_Witness ==
    /\ calls[1].pc = "done"
    /\ calls[1].op = "get_products"
    /\ calls[1].invoked = 0
    /\ calls[1].result.kind = "raises"
    /\ calls[1].result.err = ProductUnavailable

----------------------------------------------------------------------------
(* Properties of RequestPaymentUseCase, checked under SpecPay *)

\* the order of id order_id as the store holds it
Stored(order_id) == get_by_id(orders, order_id)[1]
PublishedByRp == Len(published) - rp.queued_before
LastPublished == published[Len(published)]

\* C12: a request-payment that returns, for an existing order, has published
\* exactly one message, to the payment_requests queue, carrying the order's id,
\* its total price as amount and the three customer fields (each None when the
\* order does not have it), and the store holds the order with status
\* AWAITING_PAYMENT, written by one update call made after the publish.
C12_PublishesThenPersists ==
    /\ []((rp.pc = "done" /\ rp.result.kind = "returns") =>
            /\ rp.publish_calls = 1
            /\ rp.update_calls = 1
            /\ PublishedByRp = 1
            /\ LastPublished.queue = "payment_requests"
            /\ LastPublished.message.order_id = rp.order_id
            /\ LastPublished.message.amount = Stored(rp.order_id).total_price
            /\ LET info == LastPublished.message.customer_info
                   order == Stored(rp.order_id)
                   OrNone(v) == IF v = Absent THEN None ELSE v
               IN  /\ info.name = OrNone(order.user_name)
                   /\ info.email = OrNone(order.user_email)
                   /\ info.cpf = OrNone(order.user_cpf)
            /\ Stored(rp.order_id).status = AWAITING_PAYMENT
            /\ rp.result.val[1].status = AWAITING_PAYMENT)
    /\ [][orders' # orders =>
            /\ rp.pc = "update"
            /\ PublishedByRp = 1
            /\ published' = published]_vars

C12_Witness ==
    /\ rp.pc = "done"
    /\ rp.result.kind = "returns"
    /\ rp.old_status = RECEIVED
    /\ Stored(1).status = AWAITING_PAYMENT
    /\ Stored(1).user_name = Absent
    /\ Stored(1).user_cpf = None
    /\ Len(published) = 1
    /\ published[1].message.customer_info.name = None
    /\ published[1].message.customer_info.email = "email"
    /\ published[1].message.amount = 100

\* C13: the status is flipped only after the publish has succeeded: when the
\* publish fails the operation fails, the store's update is never called and
\* the stored order is unchanged; and the store changes only in a step that
\* follows a successful publish of this execution.
C13_NoFlipOnPublishFailure ==
    /\ [][(rp.pc = "publish" /\ rp'.pc # "publish" /\ published' = published)
            => /\ rp'.pc = "done"
               /\ rp'.result.kind = "raises"
               /\ rp'.update_calls = 0
               /\ orders' = orders]_vars
    /\ []((rp.pc = "done" /\ rp.publish_calls = 1 /\ PublishedByRp = 0)
            => /\ rp.result.kind = "raises"
               /\ rp.update_calls = 0
               /\ Stored(rp.order_id).status = rp.old_status)
    /\ [](rp.pc = "publish" => Stored(rp.order_id).status = rp.old_status)
    /\ [][rp'.update_calls > rp.update_calls => PublishedByRp = 1]_vars

C13_Witness ==
    /\ rp.pc = "done"
    /\ rp.publish_calls = 1
    /\ PublishedByRp = 0
    /\ rp.result = RaisesErr(PublishError, 0)
    /\ rp.old_status = PAID
    /\ Stored(1).status = PAID

\* C14 (as stated): after any execution either a payment request was published
\* and the order is persisted as AWAITING_PAYMENT, or no message was published
\* and the stored status is unchanged, also when the store update fails after
\* the publish succeeded.
C14_PublishAndStatusAsUnit ==
    (rp.pc = "done" /\ rp.order # <<>>) =>
        \/ /\ PublishedByRp = 1
           /\ Stored(rp.order_id).status = AWAITING_PAYMENT
        \/ /\ PublishedByRp = 0
           /\ Stored(rp.order_id).status = rp.old_status

\* C14 (amended): after an execution that returns, one payment request was
\* published and the order is persisted as AWAITING_PAYMENT; after an execution
\* whose publish failed, no message was published and the stored status is
\* unchanged; after an execution whose store update failed, the operation has
\* failed, the message stays published and the stored status is unchanged.
C14_UnitUnlessUpdateFails ==
    (rp.pc = "done" /\ rp.order # <<>>) =>
        /\ rp.result.kind = "returns" =>
              /\ PublishedByRp = 1
              /\ Stored(rp.order_id).status = AWAITING_PAYMENT
        /\ PublishedByRp = 0 =>
              /\ rp.result.kind = "raises"
              /\ Stored(rp.order_id).status = rp.old_status
        /\ (PublishedByRp = 1 /\ rp.result.kind = "raises") =>
              /\ rp.update_calls = 1
              /\ Stored(rp.order_id).status = rp.old_status
        /\ PublishedByRp \in {0, 1}

C14_Witness ==
    /\ rp.pc = "done"
    /\ rp.result.kind = "raises"
    /\ PublishedByRp = 1
    /\ rp.update_calls = 1
    /\ rp.old_status = RECEIVED
    /\ Stored(1).status = RECEIVED

----------------------------------------------------------------------------
(* Properties of the payment-response consumer, checked under SpecWorker *)

\* the delivery the callback is handling, or handled last
Delivered == worker.body[1]
MappedCodes == {JStr("APPROVED"), JStr("PENDING"), JStr("REJECTED"), JStr("ERROR")}
WellFormed(body) ==
    /\ body.kind = "object"
    /\ body.object.order_id \notin {JMissing, JNone, JInt(0), JStr("")}
    /\ body.object.status \notin {JMissing, JNone, JStr("")}
TableStatus(code) ==
    IF code = JStr("APPROVED") THEN "PAID"
    ELSE IF code = JStr("PENDING") THEN "AWAITING_PAYMENT"
    ELSE IF code = JStr("REJECTED") THEN "PAYMENT_FAILED"
    ELSE "PAYMENT_ERROR"

\* C15: for a well-formed response (a JSON object with an order id and a
\* status) whose code is APPROVED, PENDING, REJECTED or ERROR the consumer
\* issues exactly one update request, for the message's order id and with the
\* status PAID, AWAITING_PAYMENT, PAYMENT_FAILED or PAYMENT_ERROR respectively;
\* for any other code it issues no update request, no stored status changes,
\* and the message is acknowledged.
C15_StatusTable ==
    /\ []((worker.body # <<>> /\ worker.pc # "idle" /\ WellFormed(Delivered)) =>
            IF Delivered.object.status \in MappedCodes
            THEN worker.puts =
                    <<[order_id |-> Delivered.object.order_id,
                       status |-> TableStatus(Delivered.object.status)]>>
            ELSE /\ worker.puts = <<>>
                 /\ worker.pc = "settled"
                 /\ worker.settled = "ack")
    /\ [][(worker'.body # <<>> /\ WellFormed(worker'.body[1])
              /\ worker'.body[1].object.status \notin MappedCodes)
            => orders' = orders]_vars
    /\ [][orders' # orders =>
            /\ Len(orders') = Len(orders)
            /\ \A i \in 1..Len(orders) :
                  orders'[i] = [orders[i] EXCEPT
                                   !.status = IF orders[i].id = Delivered.object.order_id.int
                                              THEN TableStatus(Delivered.object.status)
                                              ELSE @]]_vars

C15_Witness ==
    /\ worker.pc = "settled"
    /\ worker.settled = "ack"
    /\ Delivered = JsonObject(JInt(1), JStr("REJECTED"))
    /\ worker.puts = <<[order_id |-> JInt(1), status |-> PAYMENT_FAILED]>>
    /\ orders[1].status = PAYMENT_FAILED
    /\ worker.log = <<"ack", "ack">>

\* a delivery that is not a well-formed response
NotJson(body) == body.kind \in {"invalid", "undecodable"}
LacksField(body) ==
    \/ body.object.order_id \in {JMissing, JNone, JInt(0), JStr("")}
    \/ body.object.status \in {JMissing, JNone, JStr("")}
Discarded ==
    /\ worker.puts = <<>>
    /\ ~worker.requeue

\* C16 (as stated): a response message that is not valid JSON, or whose order
\* id or status is missing (or null, empty or zero), is acknowledged and
\* discarded: no update request is made and the message is never requeued.
C16_MalformedAcknowledged ==
    (worker.pc = "settled"
        /\ (NotJson(Delivered) \/ (Delivered.kind = "object" /\ LacksField(Delivered))))
    => /\ worker.settled = "ack"
       /\ Discarded

\* C16 (amended): a body that is text but not valid JSON, or a JSON object whose
\* order id or status is missing (or null, empty or zero), is acknowledged; a
\* body that is not decodable text, or is valid JSON but not an object, is
\* negatively acknowledged with requeue = false. In each of these cases no
\* update request is made, no stored order changes, and the message leaves the
\* queue for good.
C16_MalformedDiscarded ==
    /\ []((worker.pc = "settled" /\ (NotJson(Delivered) \/ LacksField(Delivered)))
            => /\ Discarded
               /\ worker.settled =
                     IF Delivered.kind \in {"undecodable", "value"} THEN "nack"
                     ELSE "ack")
    /\ [][(worker'.body # <<>> /\ worker'.handled # worker.handled
              /\ (NotJson(worker'.body[1]) \/ LacksField(worker'.body[1])))
            => /\ orders' = orders
               /\ worker.pc # "put"
               /\ worker'.queue = Tail(worker.queue)]_vars

C16_Witness ==
    /\ worker.pc = "settled"
    /\ worker.settled = "ack"
    /\ Delivered = JsonObject(JInt(0), JStr("APPROVED"))
    /\ worker.puts = <<>>
    /\ worker.queue = <<>>
    /\ worker.log = <<"ack", "ack">>
    /\ orders[1].status = RECEIVED

\* C17: for a message with a mapped outcome code the consumer issues the update
\* request exactly once and then acknowledges the message, whether the update
\* succeeded, was answered with a non-2xx status or could not connect; the
\* message leaves the queue (it is neither requeued nor redelivered) and no
\* second request is made for it.
C17_AckWhateverTheUpdate ==
    /\ [](worker.pc = "put" =>
            /\ Len(worker.puts) = 1
            /\ WellFormed(Delivered)
            /\ Delivered.object.status \in MappedCodes
            /\ Head(worker.queue) = Delivered)
    /\ [][worker.pc = "put" =>
            /\ worker'.pc = "settled"
            /\ worker'.settled = "ack"
            /\ ~worker'.requeue
            /\ worker'.puts = worker.puts
            /\ worker'.queue = Tail(worker.queue)]_vars
    /\ []((worker.pc = "settled" /\ WellFormed(Delivered)
              /\ Delivered.object.status \in MappedCodes)
            => Len(worker.puts) = 1 /\ worker.settled = "ack")

C17_Witness ==
    /\ worker.pc = "settled"
    /\ worker.settled = "ack"
    /\ Delivered = JsonObject(JInt(1), JStr("APPROVED"))
    /\ Len(worker.puts) = 1
    /\ orders[1].status = RECEIVED
    /\ worker.queue = <<>>
    /\ worker.handled = 1

\* C18: when an unexpected exception occurs while a message is processed (the
\* body is not decodable text, or is JSON but not an object), the message is
\* negatively acknowledged with requeue = false and leaves the queue, the
\* exception does not leave the callback, and the consumer can take the next
\* message.
C18_PoisonMessageNacked ==
    /\ []((worker.pc = "settled" /\ Delivered.kind \in {"undecodable", "value"})
            => /\ worker.settled = "nack"
               /\ ~worker.requeue
               /\ ~worker.raised
               /\ worker.puts = <<>>)
    /\ [][(worker'.handled # worker.handled
              /\ worker'.body[1].kind \in {"undecodable", "value"})
            => /\ worker'.queue = Tail(worker.queue)
               /\ orders' = orders]_vars
    /\ []((worker.pc = "settled" /\ worker.queue # <<>>) => ENABLED Deliver)

C18_Witness ==
    /\ worker.pc = "settled"
    /\ worker.log = <<"nack", "ack">>
    /\ worker.handled = 2
    /\ Delivered = JsonObject(JInt(1), JStr("APPROVED"))
    /\ orders[1].status = PAID
    /\ ~worker.raised

----------------------------------------------------------------------------
(* Properties of CreateOrderUseCase, checked under SpecCreate *)

ProductLookupFailed == calls[1].pc = "done" /\ calls[1].result.kind = "raises"
UserLookupSoftFailed ==
    /\ calls[2].pc = "done"
    /\ \/ calls[2].outcome \in {"circuit_open", "op_error"}
       \/ calls[2].result = Returns(<<>>)
LastOrder == orders[Len(orders)]

\* C19: when the product lookup of a creation fails (the product circuit is
\* open, the HTTP call fails, or a requested id is not in the catalog), the
\* creation fails with that error, the store's add is never called, no order is
\* persisted, and the user gateway is not called.
C19_ProductFailureAborts ==
    /\ []((co.pc = "done" /\ ProductLookupFailed) =>
            /\ co.result.kind = "raises"
            /\ co.result = calls[1].result
            /\ co.add_calls = 0
            /\ co.user_lookups = 0
            /\ calls[2] = NoCall)
    /\ [][(co.pc = "products" /\ ProductLookupFailed /\ co' # co)
            => co'.pc = "done" /\ orders' = orders]_vars
    /\ [][orders' # orders => ~ProductLookupFailed]_vars
    /\ [][calls'[2] # calls[2] /\ calls[2] = NoCall => ~ProductLookupFailed]_vars

C19_Witness ==
    /\ co.pc = "done"
    /\ co.cpf # None
    /\ calls[1].outcome = "circuit_open"
    /\ co.result = RaisesErr(ProductUnavailable, 0)
    /\ orders = <<>>
    /\ heap[1].failure_count = EnvThreshold

\* C20: when a cpf is supplied and the customer lookup fails, is rejected by
\* the open user circuit, or finds no user, the creation still returns: exactly
\* one order is added to the store, its total price is the sum of the resolved
\* product prices, and neither it nor the response carries a customer name or
\* email.
C20_UserFailureIsSoft ==
    /\ []((co.pc = "done" /\ co.user_lookups = 1 /\ UserLookupSoftFailed) =>
            /\ co.result.kind = "returns"
            /\ co.add_calls = 1
            /\ LastOrder.total_price = sum_prices(calls[1].result.val, 1)
            /\ LastOrder.user_name = None
            /\ LastOrder.user_email = None
            /\ LastOrder.status = RECEIVED
            /\ co.result.val[1].id = LastOrder.id
            /\ co.result.val[1].total_price = LastOrder.total_price
            /\ co.result.val[1].user_info = <<>>)
    /\ [][(co.pc = "user_wait" /\ UserLookupSoftFailed /\ co' # co)
            => co'.pc = "save"]_vars
    /\ [][orders' # orders =>
            /\ co.pc = "save"
            /\ co.add_calls = 0
            /\ Len(orders') = Len(orders) + 1
            /\ \A i \in 1..Len(orders) : orders'[i] = orders[i]]_vars
    /\ [](co.pc = "save" => co.add_calls = 0)

C20_Witness ==
    /\ co.pc = "done"
    /\ co.result.kind = "returns"
    /\ calls[2].outcome = "circuit_open"
    /\ heap[2].state = OPEN
    /\ Len(orders) = 3
    /\ LastOrder.total_price = 30
    /\ LastOrder.user_name = None
    /\ LastOrder.id = 3

\* C21: the order a successful creation persists has status RECEIVED, its
\* product_ids are the requested ids joined in the requested order with their
\* repetitions (parsing them gives the requested list back), and its
\* total_price is the sum of the prices of the products the gateway resolved,
\* one product per requested id.
C21_CreatedOrderFields ==
    /\ [][orders' # orders =>
            LET saved == orders'[Len(orders')]
                resolved == calls[1].result
            IN  /\ saved.status = RECEIVED
                /\ saved.product_ids = join_ids(co.product_ids, 1)
                /\ parse_product_ids(saved.product_ids) = co.product_ids
                /\ resolved.kind = "returns"
                /\ Len(resolved.val) = Len(co.product_ids)
                /\ \A k \in 1..Len(co.product_ids) :
                      resolved.val[k].id = co.product_ids[k]
                /\ saved.total_price = sum_prices(resolved.val, 1)
                /\ co'.result.kind = "returns"
                /\ co'.result.val[1].total_price = saved.total_price
                /\ co'.result.val[1].id = saved.id]_vars
    /\ []((co.pc = "done" /\ co.result.kind = "returns") =>
            /\ co.add_calls = 1
            /\ LastOrder.status = RECEIVED
            /\ LastOrder.product_ids = join_ids(co.product_ids, 1))

C21_Witness ==
    /\ co.pc = "done"
    /\ co.result.kind = "returns"
    /\ co.product_ids = <<2, 1, 1>>
    /\ LastOrder.product_ids = <<"2", ",", "1", ",", "1">>
    /\ LastOrder.total_price = 40
    /\ LastOrder.status = RECEIVED
    /\ Len(co.result.val[1].products) = 3

----------------------------------------------------------------------------
(* Properties of the operations that answer with an order's view, checked    *)
(* under SpecRead                                                            *)

ViewOps == {"get_order", "list_orders", "update_order_status"}
LookupFailed == calls[1].pc = "done" /\ calls[1].result.kind = "raises"
StoredIds(order) == parse_product_ids(order.product_ids)
Placeholder(product_id) == [id |-> product_id, name |-> "Unknown", price |-> 0]

\* C22: when the product lookup made for an order fails (the circuit is open,
\* the HTTP call fails, or an id is not in the catalog), get-order, list and
\* update-status go on: the order's view holds one placeholder
\* {id, "Unknown", 0} per id of the stored product_ids, in the stored order,
\* and the operation fails only when the order id is not in the store.
C22_PlaceholdersOnLookupFailure ==
    /\ [][(uc.pc = "products" /\ LookupFailed /\ uc' # uc) =>
            LET order == uc.todo[1]
                view == uc'.views[Len(uc.views) + 1]
            IN  /\ uc.op \in ViewOps
                /\ uc'.pc \in {"done", "next"}
                /\ uc'.result.kind # "raises"
                /\ Len(uc'.views) > Len(uc.views)
                /\ view.id = order.id
                /\ Len(view.products) = Len(StoredIds(order))
                /\ \A k \in 1..Len(StoredIds(order)) :
                      view.products[k] = Placeholder(StoredIds(order)[k])
                /\ join_ids([k \in 1..Len(view.products) |-> view.products[k].id], 1)
                      = order.product_ids]_vars
    /\ []((uc.pc = "done" /\ uc.result.kind = "raises") =>
            /\ uc.op # "list_orders"
            /\ get_by_id(orders, uc.order_id) = <<>>)

C22_Witness ==
    /\ uc.pc = "done"
    /\ uc.op = "list_orders"
    /\ uc.result.kind = "returns"
    /\ Len(uc.result.val) = 2
    /\ uc.result.val[1].products = <<Placeholder(2), Placeholder(1), Placeholder(1)>>
    /\ uc.result.val[2].products = <<Placeholder(2), Placeholder(1)>>
    /\ heap[1].state = OPEN

\* a customer name or email the stored order carries
Captured(value) == has_text(value)
StoredOrder(view) == get_by_id(orders, view.id)[1]

\* C23: every view built by get-order, list or update-status carries user_info
\* whenever the stored order has a customer name or a customer email, with
\* each stored field as stored, and the user gateway is never called.
C23_SnapshotIncluded ==
    /\ \A k \in 1..Len(uc.views) :
          LET view == uc.views[k]
              order == StoredOrder(view)
          IN  (Captured(order.user_name) \/ Captured(order.user_email)) =>
                 /\ view.user_info # <<>>
                 /\ Captured(order.user_name) =>
                       view.user_info[1].name = order.user_name
                 /\ Captured(order.user_email) =>
                       view.user_info[1].email = order.user_email
    /\ calls[2] = NoCall
    /\ uc.user_lookups = 0

\* C25: update-status checks no transition: for every current status and every
\* target status among the eight, the update of an existing order stores the
\* target as the order's status and returns the order with that status
\* (FINISHED back to RECEIVED, for one).
C25_AnyStatusOverwritesAny ==
    /\ [][\A current \in OrderStatus, status \in OrderStatus :
             ( /\ uc.pc = "idle"
               /\ uc'.op = "update_order_status"
               /\ uc'.status = status
               /\ get_by_id(orders, uc'.order_id) # <<>>
               /\ get_by_id(orders, uc'.order_id)[1].status = current ) =>
                 /\ get_by_id(orders', uc'.order_id) # <<>>
                 /\ get_by_id(orders', uc'.order_id)[1].status = status
                 /\ uc'.update_calls = 1
                 /\ uc'.old_status = current
                 /\ uc'.result.kind # "raises"]_vars
    /\ []((uc.op = "update_order_status" /\ uc.pc = "done"
              /\ uc.update_calls = 1) =>
                 /\ uc.result.kind = "returns"
                 /\ Len(uc.result.val) = 1
                 /\ uc.result.val[1].id = uc.order_id
                 /\ uc.result.val[1].status = uc.status)

\* a FINISHED order was set back to RECEIVED and the update returned it
C25_Witness ==
    /\ uc.op = "update_order_status" /\ uc.pc = "done"
    /\ uc.old_status = FINISHED /\ uc.status = RECEIVED
    /\ uc.result.kind = "returns"
    /\ Stored(uc.order_id).status = RECEIVED

\* C28: deleting an order id that the store does not hold fails with a
\* not-found error without calling the store's delete, and leaves the store as
\* it was; deleting an order the store holds calls the store's delete once,
\* with that order, which removes it and no other order.
C28_DeleteLooksUpFirst ==
    [][(uc.pc = "idle" /\ uc'.op = "delete_order") =>
          /\ uc'.pc = "done"
          /\ IF get_by_id(orders, uc'.order_id) = <<>>
             THEN /\ uc'.result = RaisesErr(OrderNotFound, uc'.order_id)
                  /\ uc'.delete_calls = 0
                  /\ uc'.deleted = <<>>
                  /\ orders' = orders
             ELSE /\ uc'.result.kind = "returns"
                  /\ uc'.delete_calls = 1
                  /\ uc'.deleted = get_by_id(orders, uc'.order_id)
                  /\ get_by_id(orders', uc'.order_id) = <<>>
                  /\ Len(orders') = Len(orders) - 1
                  /\ \A i \in 1..Len(orders) :
                        orders[i].id # uc'.order_id =>
                            get_by_id(orders', orders[i].id) = <<orders[i]>>]_vars

\* order 1, which every store starts with, was deleted, and a second delete
\* of it has failed with not-found, the other order being kept
C28_Witness ==
    /\ uc.op = "delete_order" /\ uc.pc = "done" /\ uc.order_id = 1
    /\ uc.result = RaisesErr(OrderNotFound, 1)
    /\ uc.delete_calls = 0
    /\ get_by_id(orders, 1) = <<>>
    /\ Len(orders) = 1

\* C34: update-status stores the new status before it builds the response:
\* the order is stored with the new status while the product lookup is in
\* flight, and when the lookup fails the stored status stays the new one and
\* the response reports it, with a placeholder for each product.
C34_PersistedBeforeResponse ==
    /\ []((uc.op = "update_order_status" /\ uc.pc = "products") =>
             /\ uc.update_calls = 1
             /\ Stored(uc.order_id).status = uc.status)
    /\ [][(uc.op = "update_order_status" /\ uc.pc = "products" /\ LookupFailed
             /\ uc' # uc) =>
             /\ orders' = orders
             /\ get_by_id(orders', uc.order_id)[1].status = uc.status
             /\ uc'.pc = "done"
             /\ uc'.result.kind = "returns"
             /\ uc'.result.val[1].status = uc.status
             /\ uc'.result.val[1].products =
                    placeholders(StoredIds(Stored(uc.order_id)))]_vars

\* a READY order was updated to FINISHED; the product lookup failed; the
\* response reports FINISHED with placeholders and the store holds FINISHED
C34_Witness ==
    /\ uc.op = "update_order_status" /\ uc.pc = "done"
    /\ uc.old_status = READY /\ uc.status = FINISHED
    /\ uc.result.kind = "returns"
    /\ uc.result.val[1].status = FINISHED
    /\ uc.result.val[1].products # <<>>
    /\ \A k \in 1..Len(uc.result.val[1].products) :
          uc.result.val[1].products[k].name = "Unknown"
    /\ Stored(uc.order_id).status = FINISHED

----------------------------------------------------------------------------
(* Properties of an order's life under the status update, the payment
   request and the payment-response consumer, checked under SpecLife *)

SameButStatus(before, after) ==
    /\ after.id = before.id
    /\ after.product_ids = before.product_ids
    /\ after.total_price = before.total_price
    /\ after.user_name = before.user_name
    /\ after.user_email = before.user_email

\* C24: once an order is created, its id, its product_ids and its total_price
\* never change: a status update, a payment request and the handling of a
\* payment response change the stored order's status only, and neither add
\* nor remove an order.
C24_OnlyStatusChanges ==
    [][/\ Len(orders') = Len(orders)
       /\ \A i \in 1..Len(orders) : SameButStatus(orders[i], orders'[i])]_vars

\* the three operations have each stored a status for order 1, whose other
\* fields are those it was created with
C24_Witness ==
    /\ uc.op = "update_order_status" /\ uc.pc = "done" /\ uc.update_calls = 1
    /\ rp.pc = "done" /\ rp.result.kind = "returns"
    /\ worker.applied # <<>>
    /\ Stored(1).status # RECEIVED
    /\ Stored(1).product_ids = join_ids(<<1, 2>>, 1)
    /\ Stored(1).total_price = 30

\* the step is the payment request's store update
PaymentRequestPersists == rp.pc = "update" /\ rp'.pc = "done"

\* the step is the update endpoint's answer to the consumer's PUT
ConsumerApplies == worker.pc = "put" /\ worker' # worker

\* the step is a direct status update
DirectUpdate == uc.pc = "idle" /\ uc'.op = "update_order_status"

Enters(i) ==
    orders[i].status # AWAITING_PAYMENT /\ orders'[i].status = AWAITING_PAYMENT

Leaves(i) ==
    orders[i].status = AWAITING_PAYMENT /\ orders'[i].status # AWAITING_PAYMENT

C27_AbsentOrderNoEffect ==
    /\ [][(DirectUpdate /\ get_by_id(orders, uc'.order_id) = <<>>) =>
             /\ uc'.pc = "done"
             /\ uc'.result = RaisesErr(OrderNotFoundOnUpdate, uc'.order_id)
             /\ uc'.update_calls = 0
             /\ orders' = orders
             /\ published' = published
             /\ calls' = calls]_vars
    /\ [][(rp.pc = "idle" /\ rp'.pc # "idle"
             /\ get_by_id(orders, rp'.order_id) = <<>>) =>
             /\ rp'.pc = "done"
             /\ rp'.result = RaisesErr(OrderNotFound, rp'.order_id)
             /\ rp'.publish_calls = 0
             /\ rp'.update_calls = 0
             /\ orders' = orders
             /\ published' = published]_vars
    /\ []((rp.pc = "done" /\ rp.result.err = OrderNotFound) =>
             /\ rp.publish_calls = 0
             /\ rp.update_calls = 0
             /\ Len(published) = rp.queued_before)
    /\ []((uc.op = "update_order_status" /\ uc.result.err = OrderNotFoundOnUpdate) =>
             uc.update_calls = 0)

\* a status update of the absent order 2 has failed, and so has a payment
\* request for it, with order 1 as created and nothing published
C27_Witness ==
    /\ uc.op = "update_order_status" /\ uc.pc = "done" /\ uc.order_id = 2
    /\ uc.result = RaisesErr(OrderNotFoundOnUpdate, 2)
    /\ rp.pc = "done" /\ rp.order_id = 2
    /\ rp.result = RaisesErr(OrderNotFound, 2)
    /\ get_by_id(orders, 2) = <<>>
    /\ Stored(1).status = RECEIVED
    /\ published = <<>>

\* C29: the status writes to one order by the direct update, by the payment
\* request's AWAITING_PAYMENT persist and by the consumer's applied outcome
\* are last-write-wins: each write can happen whatever the other writers are
\* doing and whatever status the store holds, and leaves its own value as the
\* stored status. A response applied between the publish and the persist of
\* a payment request is therefore overwritten by AWAITING_PAYMENT.
C29_LastWriteWins ==
    /\ [](rp.pc = "update" => ENABLED UpdateSucceeds)
    /\ []((worker.pc = "put" /\ worker.puts[1].order_id = JInt(1)) =>
             ENABLED PutResponds("ok"))
    /\ [][(PaymentRequestPersists /\ rp'.result.kind = "returns") =>
             /\ get_by_id(orders', rp.order_id)[1].status = AWAITING_PAYMENT
             /\ rp'.overwritten = get_by_id(orders, rp.order_id)[1].status]_vars
    /\ [][(ConsumerApplies /\ worker'.applied # worker.applied) =>
             get_by_id(orders', worker.puts[1].order_id.int)[1].status =
                 worker.puts[1].status]_vars
    /\ [][(DirectUpdate /\ uc'.update_calls = 1) =>
             get_by_id(orders', uc'.order_id)[1].status = uc'.status]_vars

\* the order was RECEIVED when payment was requested; the APPROVED response
\* to the published request was applied (PAID) before the request's persist,
\* which overwrote PAID: the order is left in AWAITING_PAYMENT with its
\* response consumed
C29_Witness ==
    /\ rp.pc = "done" /\ rp.result.kind = "returns"
    /\ rp.old_status = RECEIVED
    /\ rp.overwritten = PAID
    /\ Len(published) = 1
    /\ worker.applied = <<PAID>>
    /\ worker.queue = <<>> /\ worker.pc = "settled"
    /\ Stored(1).status = AWAITING_PAYMENT

----------------------------------------------------------------------------
(* The HALF_OPEN quota under concurrent callers, checked under Spec *)

\* the calls suspended in func that execute let through in the present
\* HALF_OPEN period of breaker b
Trials(b) == {c \in Tasks : calls[c].pc = "running" /\ calls[c].cb = b
                                /\ calls[c].trial}

\* C30: while the breaker is HALF_OPEN no more than half_open_calls wrapped
\* operations are let through, concurrent callers included: the trials that
\* have succeeded and those still running never exceed the quota.
C30_HalfOpenQuota ==
    \A b \in Breakers :
        heap[b].state = HALF_OPEN =>
            heap[b].half_open_successes + Cardinality(Trials(b))
                <= heap[b].half_open_calls

\* C36: under every interleaving of the tasks' execute calls on one breaker
\* built with failure_threshold >= 1 and half_open_calls >= 1: failure_count
\* never exceeds failure_threshold; CLOSED implies failure_count below the
\* threshold and half_open_successes = 0; OPEN and HALF_OPEN imply
\* failure_count = failure_threshold; and half_open_successes stays below
\* half_open_calls.
C36_CounterRanges ==
    \A b \in Breakers :
        /\ heap[b].failure_count <= heap[b].failure_threshold
        /\ heap[b].state = CLOSED =>
              /\ heap[b].failure_count < heap[b].failure_threshold
              /\ heap[b].half_open_successes = 0
        /\ heap[b].state \in {OPEN, HALF_OPEN} =>
              heap[b].failure_count = heap[b].failure_threshold
        /\ heap[b].half_open_successes >= 0
        /\ heap[b].half_open_successes < heap[b].half_open_calls

\* two calls are suspended in func on a HALF_OPEN breaker that has counted a
\* trial's success and needs another
C36_Witness ==
    /\ heap[1].state = HALF_OPEN
    /\ heap[1].half_open_successes = 1
    /\ heap[1].half_open_calls = 2
    /\ heap[1].failure_count = heap[1].failure_threshold
    /\ \A c \in {1, 2} : calls[c].pc = "running"

Rejected(c) == Begins(c) /\ calls'[c].outcome = "circuit_open"

\* C37: a call rejected with CircuitOpenError leaves the breaker's state,
\* failure_count, half_open_successes and last_failure_time as they were;
\* last_failure_time is written only when a called func raises. Rejections
\* therefore do not extend the open period: with a rejected call behind it,
\* a call made more than recovery_timeout after the last failure is let
\* through as a trial.
C37_RejectionsLeaveBreaker ==
    /\ [][\A c \in Tasks :
             Rejected(c) =>
                 /\ heap'[calls'[c].cb].state = heap[calls'[c].cb].state
                 /\ heap'[calls'[c].cb].failure_count =
                        heap[calls'[c].cb].failure_count
                 /\ heap'[calls'[c].cb].half_open_successes =
                        heap[calls'[c].cb].half_open_successes
                 /\ heap'[calls'[c].cb].last_failure_time =
                        heap[calls'[c].cb].last_failure_time]_vars
    /\ [][\A b \in Breakers :
             heap'[b].last_failure_time # heap[b].last_failure_time =>
                 /\ heap'[b].last_failure_time = now
                 /\ \E c \in Tasks : Raised(c) /\ calls[c].cb = b]_vars
    /\ [][\A c \in Tasks :
             ( /\ Begins(c)
               /\ \E d \in Tasks : calls[d].outcome = "circuit_open"
               /\ heap[calls'[c].cb].state = OPEN
               /\ now - heap[calls'[c].cb].last_failure_time
                      > heap[calls'[c].cb].recovery_timeout ) =>
                 /\ calls'[c].pc = "running"
                 /\ calls'[c].trial
                 /\ heap'[calls'[c].cb].state = HALF_OPEN]_vars

\* a call was rejected on the OPEN breaker, and the first call made more than
\* recovery_timeout after the failure that opened it runs as the trial
C37_Witness ==
    /\ calls[1].outcome = "circuit_open"
    /\ calls[2].pc = "running" /\ calls[2].trial
    /\ heap[1].state = HALF_OPEN
    /\ now - heap[1].last_failure_time = heap[1].recovery_timeout + 1

\* C38: an execution is accounted against the state the breaker has when func
\* completes, not the one it had when func was called. A call let through
\* while CLOSED whose func raises when the breaker is OPEN writes
\* last_failure_time only, state and failure_count staying as they are; a call
\* let through while CLOSED whose func returns when the breaker is HALF_OPEN is
\* counted as a HALF_OPEN success: it adds one to half_open_successes, or
\* resets the breaker when that reaches half_open_calls.
C38_AccountedAtCompletion ==
    /\ [][\A c \in Tasks :
             (Raised(c) /\ calls[c].admitted = CLOSED
                 /\ heap[calls[c].cb].state = OPEN) =>
                 heap'[calls[c].cb] =
                     [heap[calls[c].cb] EXCEPT !.last_failure_time = now]]_vars
    /\ [][\A c \in Tasks :
             (Returned(c) /\ calls[c].admitted = CLOSED
                 /\ heap[calls[c].cb].state = HALF_OPEN) =>
                 IF heap[calls[c].cb].half_open_successes + 1
                        >= heap[calls[c].cb].half_open_calls
                 THEN heap'[calls[c].cb] = reset(heap[calls[c].cb])
                 ELSE heap'[calls[c].cb] =
                          [heap[calls[c].cb] EXCEPT !.half_open_successes = @ + 1]]_vars

\* both calls were let through while the breaker was CLOSED. The first one's
\* failure opened it; the second's, later, restarted the recovery timeout of
\* the OPEN breaker without being counted
C38_Witness ==
    /\ \A c \in {1, 2} : calls[c].admitted = CLOSED /\ calls[c].outcome = "op_error"
    /\ heap[1].state = OPEN
    /\ heap[1].failure_threshold = 1
    /\ heap[1].failure_count = 1
    /\ failed[1] = 2
    /\ heap[1].last_failure_time = now
    /\ now > 0

\* a call let through while CLOSED has returned on the HALF_OPEN breaker and
\* is the one success counted there, the trial being still suspended in func
C38_WitnessSuccess ==
    /\ calls[1].admitted = CLOSED /\ calls[1].outcome = "result"
    /\ calls[2].pc = "running" /\ calls[2].trial
    /\ heap[1].state = HALF_OPEN
    /\ heap[1].half_open_successes = 1

----------------------------------------------------------------------------
(* The breakers' accounting of the gateways' calls, checked under SpecGw *)

ProductFailures == {ProductTimeout, ProductConnect, ProductHttpStatus, ProductNotFound}

\* the call of task c, made through a gateway of class cls, ends in this step
Ends(c, cls) ==
    /\ calls[c].pc = "running" /\ calls'[c].pc = "done"
    /\ calls[c].gw # 0
    /\ gws[calls[c].gw].class = cls

\* C32: the product breaker counts every failed lookup alike: a timeout, a
\* connection failure, a non-2xx answer and an id that the catalog does not
\* hold are each handled as one failure (one more in failure_count while
\* CLOSED, OPEN once it reaches the threshold), whichever gateway instance
\* made the call; unknown ids alone can thus open the circuit.
C32_EveryFailureCounts ==
    [][\A c \in GwTasks :
          (Ends(c, ProductGateway) /\ calls'[c].result.kind = "raises") =>
              /\ calls'[c].result.err \in ProductFailures
              /\ heap'[calls[c].cb] = handle_failure(heap[calls[c].cb], now)
              /\ heap[calls[c].cb].state = CLOSED =>
                    /\ heap'[calls[c].cb].failure_count =
                           heap[calls[c].cb].failure_count + 1
                    /\ heap'[calls[c].cb].state =
                           IF heap'[calls[c].cb].failure_count
                                  >= heap[calls[c].cb].failure_threshold
                           THEN OPEN ELSE CLOSED]_vars

\* a lookup naming id 2, which the catalog does not hold, was the failure
\* that opened the product circuit
C32_Witness ==
    /\ calls[1].outcome = "op_error"
    /\ calls[1].op = "get_products"
    /\ calls[1].result = RaisesErr(ProductNotFound, 2)
    /\ heap[calls[1].cb].state = OPEN
    /\ heap[calls[1].cb].failure_count = EnvThreshold
    /\ heap[calls[1].cb].last_failure_time = now

----------------------------------------------------------------------------
(* Listing while the catalog is down, checked under SpecList *)

\* a list_orders call that found the product breaker CLOSED with no failure
ListFromFresh ==
    /\ uc.op = "list_orders"
    /\ uc.before[1].state = CLOSED
    /\ uc.before[1].failure_count = 0

\* the HTTP calls the list has made for its lookups, the one in flight included
Attempted == uc.http_calls + calls[1].invoked

Ids(list) == [k \in 1..Len(list) |-> list[k].id]

\* C39: orders with products are listed while the catalog is down, within
\* the recovery timeout, by a call that finds the product breaker CLOSED with
\* failure_count 0. The call makes at most failure_threshold HTTP requests;
\* every later lookup is rejected by the open circuit, and its order gets
\* placeholders; the call returns every order of the page; and the breaker
\* is left OPEN when the page has failure_threshold orders or more.
C39_ListStopsAtThreshold ==
    /\ [](ListFromFresh =>
             /\ Attempted <= heap[1].failure_threshold
             /\ Attempted = Min(Len(uc.views) + calls[1].invoked,
                                heap[1].failure_threshold))
    /\ [][(uc.pc = "idle" /\ uc'.op = "list_orders") =>
             Ids(uc'.views) \o Ids(uc'.todo) \in
                 {Ids(list_orders(orders, limit, skip)) :
                      limit \in 1..MaxOrders, skip \in ListSkips}]_vars
    /\ [][(uc.op = "list_orders" /\ uc'.op = "list_orders") =>
             Ids(uc'.views) \o Ids(uc'.todo) = Ids(uc.views) \o Ids(uc.todo)]_vars
    /\ [][(ListFromFresh /\ uc.pc = "products" /\ uc' # uc) =>
             /\ calls[1].outcome = "circuit_open" <=>
                    Len(uc.views) >= heap[1].failure_threshold
             /\ uc'.views[Len(uc'.views)].products =
                    placeholders(StoredIds(uc.todo[1]))]_vars
    /\ []((ListFromFresh /\ uc.pc = "done") =>
             /\ uc.todo = <<>>
             /\ uc.result = Returns(uc.views)
             /\ \A k \in 1..Len(uc.views) :
                   uc.views[k].products =
                       placeholders(StoredIds(Stored(uc.views[k].id)))
             /\ Len(uc.views) >= heap[1].failure_threshold =>
                   /\ heap[1].state = OPEN
                   /\ uc.http_calls = heap[1].failure_threshold
             /\ Len(uc.views) < heap[1].failure_threshold =>
                   /\ heap[1].state = CLOSED
                   /\ uc.http_calls = Len(uc.views))

\* more orders than the threshold were listed: the call made
\* failure_threshold HTTP requests, returned all the orders and left the
\* product breaker OPEN
C39_Witness ==
    /\ ListFromFresh /\ uc.pc = "done"
    /\ Len(uc.result.val) > EnvThreshold
    /\ uc.http_calls = EnvThreshold
    /\ heap[1].state = OPEN
    /\ heap[1].failure_count = EnvThreshold

----------------------------------------------------------------------------
(* Repeated payment requests, checked under SpecPay *)

\* C40: request-payment tests neither the order's status nor whether payment
\* was requested before: called for an order the store holds, in any of the
\* eight statuses, it goes on to publish a payment request; every call that
\* returns has added one message to the queue, equal or not to one already
\* there, and has stored AWAITING_PAYMENT.
C40_NoStatusPrecondition ==
    /\ [][\A status \in OrderStatus :
             ( /\ rp.pc = "idle" /\ rp'.pc # "idle"
               /\ get_by_id(orders, rp'.order_id) # <<>>
               /\ get_by_id(orders, rp'.order_id)[1].status = status ) =>
                 /\ rp'.pc = "publish"
                 /\ rp'.old_status = status
                 /\ rp'.request =
                        <<payment_request(get_by_id(orders, rp'.order_id)[1])>>]_vars
    /\ [](rp.pc = "publish" => ENABLED PublishSucceeds)
    /\ [][(rp.pc = "publish" /\ rp'.pc = "update") =>
             /\ Len(published') = Len(published) + 1
             /\ published'[Len(published')].message = rp.request[1]]_vars
    /\ []((rp.pc = "done" /\ rp.result.kind = "returns") =>
             /\ Len(published) = rp.queued_before + 1
             /\ published[Len(published)].message.order_id = rp.order_id
             /\ Stored(rp.order_id).status = AWAITING_PAYMENT)

\* payment was requested twice for one order, the second time when it was
\* already AWAITING_PAYMENT: the queue holds two equal requests
C40_Witness ==
    /\ rp.pc = "done" /\ rp.result.kind = "returns"
    /\ rp.old_status = AWAITING_PAYMENT
    /\ Len(published) = 2
    /\ published[1] = published[2]
    /\ Stored(rp.order_id).status = AWAITING_PAYMENT

----------------------------------------------------------------------------
(* The consumer's progress through a backlog, checked under SpecWorkerFair *)

----------------------------------------------------------------------------
(* RabbitMQBroker's handling of publish failures, checked under SpecBroker *)

\* C35: when the try block of publish fails, the broker sets its connection
\* to None and the error leaves publish with nothing published; a publish
\* that finds the connection None or closed connects first and only then
\* reaches queue_declare and basic_publish, so a message is only ever
\* published over an open connection; when connecting fails, publish raises
\* and nothing is published.
C35_PublishFailureReconnects ==
    /\ [][(broker.pc = "publishing" /\ broker'.log # broker.log
                /\ broker'.log[Len(broker'.log)] = "publish_raised") =>
             /\ broker'.connection = None
             /\ broker'.pc = "idle"
             /\ published' = published]_vars
    /\ [][(broker.pc = "idle" /\ broker'.pc = "publishing"
                /\ needs_connection(broker)) =>
             /\ broker'.connection = "open"
             /\ broker'.channel = "current"
             /\ broker'.reconnected
             /\ published' = published]_vars
    /\ [][published' # published =>
             /\ broker.pc = "publishing"
             /\ broker.connection = "open"
             /\ published' = Append(published, [queue |-> PaymentRequestsQueue,
                                                body |-> broker.message])]_vars
    /\ [][(broker.pc = "idle" /\ broker'.publishes # broker.publishes
                /\ needs_connection(broker) /\ broker'.pc # "publishing") =>
             /\ broker'.log = Append(broker.log, "connect_raised")
             /\ broker'.pc = "idle"
             /\ published' = published]_vars
    /\ [](broker.log # <<>> /\ broker.pc = "idle"
            /\ broker.log[Len(broker.log)] = "publish_raised" =>
              broker.connection = None /\ needs_connection(broker))

\* a publish failed and dropped the connection, the next one could not
\* connect, and the third connected and published its message
C35_Witness ==
    /\ broker.log = <<"publish_raised", "connect_raised", "ok">>
    /\ broker.reconnected
    /\ broker.connection = "open"
    /\ Len(published) = 1
    /\ published[1].body = broker.message

----------------------------------------------------------------------------
(* Properties of HttpProductGateway, checked under SpecHttp *)

InCatalog(i) ==
    /\ http.response.kind = "ok"
    /\ \E j \in 1..Len(http.response.body) : http.response.body[j].id = i

\* C10: get_products(ids) is all-or-nothing: it either returns exactly one
\* catalog entry per requested id, in request order with duplicates kept, or it
\* fails; when any requested id is absent from the catalog response it fails
\* and returns no partial list.
C10_AllOrNothing ==
    (http.op = "get_products" /\ http.result.kind # "none") =>
        /\ http.result.kind \in {"returns", "raises"}
        /\ http.result.kind = "returns" =>
              /\ Len(http.result.val) = Len(http.ids)
              /\ \A k \in 1..Len(http.ids) :
                    /\ http.result.val[k].id = http.ids[k]
                    /\ \E j \in 1..Len(http.response.body) :
                          http.response.body[j] = http.result.val[k]
        /\ (\E k \in 1..Len(http.ids) : ~InCatalog(http.ids[k])) =>
              http.result.kind = "raises"
        /\ http.result.kind = "raises" => http.result.val = <<>>
        /\ (http.response.kind = "ok" /\ \A k \in 1..Len(http.ids) : InCatalog(http.ids[k]))
              => http.result.kind = "returns"

C10_Witness ==
    /\ http.op = "get_products"
    /\ http.result.kind = "raises"
    /\ Len(http.ids) = 3
    /\ InCatalog(http.ids[1]) /\ InCatalog(http.ids[2]) /\ ~InCatalog(http.ids[3])
    /\ http.ids[1] # http.ids[2]

====
